---- MODULE Spec2Model ----
(***************************************************************************)
(* react-flexi-window: the interaction state machine of WindowComponent    *)
(* (src/unnamed/part_000, the most complete revision of                    *)
(* src/lib/WindowComponent.jsx).                                           *)
(*                                                                         *)
(* State is the component's React state (position, size, isInteracting,    *)
(* viewportSize), its refs (interactionRef, windowRef, dragHoldTimerRef,   *)
(* touchStartCoordsRef), the timeouts it has set and the window listeners  *)
(* its effects have registered.  One action per DOM event, timer callback  *)
(* or effect run.  An event handler runs to completion together with the   *)
(* render it causes; the effects of that render (useEffect) are the next   *)
(* steps, and they are flushed before the next event is dispatched.        *)
(*                                                                         *)
(* Lengths are CSS pixels.  A size value is a tagged record: Px(n), Auto   *)
(* or Full.  Infinity (the default maxW/maxH) and 'viewport' are tags of   *)
(* the maximum.                                                            *)
(***************************************************************************)
EXTENDS Integers, Sequences, FiniteSets, TLC

VARIABLES
    props,               \* minW, minH, maxW, maxH, boundary (component props)
    layout,              \* rendered width/height of an 'auto' / 'full' box
    position,            \* useState({x, y})
    size,                \* useState({w, h})
    isInteracting,       \* useState(false)
    viewportSize,        \* useState({width, height})
    interactionRef,      \* useRef(null): the session
    mounted,             \* windowRef.current is set
    dragHoldTimerRef,    \* useRef(null): id of the last timeout set, 0 = null
    touchStartCoordsRef, \* useRef(null)
    holds,               \* the timeouts set by handleDragTouchStart, by id
    fingers,             \* the touches now down that started on the content area,
                         \* oldest first, each by the id of the timeout it set
    listeners,           \* the window move/up/leave/touch listeners are registered
    depsChanged,         \* a dependency of the reconcile effect changed since it last ran
    nDowns,              \* pointer-down events handled so far (bounded)
    lastAct              \* the step that led to this state

vars == <<props, layout, position, size, isInteracting, viewportSize,
          interactionRef, mounted, dragHoldTimerRef, touchStartCoordsRef,
          holds, fingers, listeners, depsChanged, nDowns, lastAct>>

----------------------------------------------------------------------------
(* Bounds of the model *)

MaxCoord == 3
MaxDowns == 2

\* pointer coordinates (clientX / clientY) the move events carry
Coords == {10 * k : k \in 0..MaxCoord}

\* The handlers read a pointer-down's coordinates only to subtract them from
\* later coordinates, so one pointer-down point gives every difference the
\* moves can make: -10..20 with MaxCoord = 3, on both sides of
\* MOVEMENT_THRESHOLD.
DownCoords == {10}

----------------------------------------------------------------------------
(* Values *)

Max(a, b) == IF a >= b THEN a ELSE b
Min(a, b) == IF a <= b THEN a ELSE b
Abs(a) == IF a < 0 THEN -a ELSE a

Px(n) == [tag |-> "px", v |-> n]
Auto == [tag |-> "auto", v |-> 0]
Full == [tag |-> "full", v |-> 0]
Infinity == [tag |-> "inf", v |-> 0]
Viewport == [tag |-> "viewport", v |-> 0]

\* typeof v === 'number'
IsNumber(s) == s.tag = "px"

\* Math.min(n, m) for a number n and a maximum m that may be Infinity
MinMax(n, m) == IF m.tag = "inf" THEN n ELSE Min(n, m.v)

\* n > m for a number n and a maximum m that may be Infinity
Exceeds(n, m) == m.tag # "inf" /\ n > m.v

NoSession == [type |-> "none", startX |-> 0, startY |-> 0,
              initialWidth |-> 0, initialHeight |-> 0,
              initialX |-> 0, initialY |-> 0]

NoCoords == [set |-> FALSE, x |-> 0, y |-> 0]

\* A timeout that has been cleared or has fired is kept by id only: its
\* callback, and the event and closure the callback holds, are unreachable.
Settle(hold) ==
    IF hold.status = "pending" THEN hold
    ELSE [x |-> 0, y |-> 0, interactive |-> FALSE, pos |-> [x |-> 0, y |-> 0],
          status |-> "settled", exceeded |-> FALSE]
Settled(h) == [k \in 1..Len(h) |-> Settle(h[k])]

ResizeTypes == {"resize-top", "resize-bottom", "resize-left", "resize-right",
                "resize-top-left", "resize-top-right",
                "resize-bottom-left", "resize-bottom-right"}

\* type.includes('left') and so on
IncludesLeft(t) == t \in {"resize-left", "resize-top-left", "resize-bottom-left"}
IncludesRight(t) == t \in {"resize-right", "resize-top-right", "resize-bottom-right"}
IncludesTop(t) == t \in {"resize-top", "resize-top-left", "resize-top-right"}
IncludesBottom(t) == t \in {"resize-bottom", "resize-bottom-left", "resize-bottom-right"}

\* all eight handles in every state (what the amended C17 rules out)
allHandlesAlways == ResizeTypes

\* the handles rendered: all eight when idle, the four corners while interacting
defaultResizeHandles == ResizeTypes
assistiveResizeHandles == {"resize-top-left", "resize-top-right",
                           "resize-bottom-left", "resize-bottom-right"}
activeHandles == IF isInteracting THEN assistiveResizeHandles ELSE defaultResizeHandles

\* windowStyle.userSelect
userSelect == IF isInteracting THEN "none" ELSE "auto"

\* windowRef.current.offsetWidth / offsetHeight of the rendered box (with the
\* default windowBorder = 0 a numeric size is the rendered size)
offsetWidth == IF IsNumber(size.w) THEN size.w.v ELSE layout.w
offsetHeight == IF IsNumber(size.h) THEN size.h.v ELSE layout.h

effectiveMaxW == IF props.maxW.tag = "viewport" THEN Px(viewportSize.width) ELSE props.maxW
effectiveMaxH == IF props.maxH.tag = "viewport" THEN Px(viewportSize.height) ELSE props.maxH

----------------------------------------------------------------------------
(* The handlers, as functions of the state they read *)

Act(name, id, interactive, posWritten, sizeWritten) ==
    [name |-> name, id |-> id, interactive |-> interactive,
     posWritten |-> posWritten, sizeWritten |-> sizeWritten]

\* clearTimeout(id): cancels the timeout if it is still pending, else nothing
clearTimeout(h, id) ==
    IF id \in 1..Len(h) /\ h[id].status = "pending"
    THEN Settled([h EXCEPT ![id].status = "settled"])
    ELSE Settled(h)

\* a start handler that ignores the resize handles (what C15 rules out)
handleInteractionStartDragOnly(type, clientX, clientY, interactive, pos) ==
    IF type # "drag" \/ interactive \/ ~mounted
    THEN [ref |-> interactionRef, isInteracting |-> isInteracting, created |-> FALSE]
    ELSE [ref |-> [type |-> type, startX |-> clientX, startY |-> clientY,
                   initialWidth |-> offsetWidth, initialHeight |-> offsetHeight,
                   initialX |-> pos.x, initialY |-> pos.y],
          isInteracting |-> TRUE, created |-> TRUE]

\* a start handler that does not test windowRef.current (what C16 rules out)
handleInteractionStartUnmeasured(type, clientX, clientY, interactive, pos) ==
    IF type = "drag" /\ interactive
    THEN [ref |-> interactionRef, isInteracting |-> isInteracting, created |-> FALSE]
    ELSE [ref |-> [type |-> type, startX |-> clientX, startY |-> clientY,
                   initialWidth |-> offsetWidth, initialHeight |-> offsetHeight,
                   initialX |-> pos.x, initialY |-> pos.y],
          isInteracting |-> TRUE, created |-> TRUE]

\* a start handler that begins a drag on any target (what C3 rules out)
handleInteractionStartAnyTarget(type, clientX, clientY, interactive, pos) ==
    IF ~mounted
    THEN [ref |-> interactionRef, isInteracting |-> isInteracting, created |-> FALSE]
    ELSE [ref |-> [type |-> type, startX |-> clientX, startY |-> clientY,
                   initialWidth |-> offsetWidth, initialHeight |-> offsetHeight,
                   initialX |-> pos.x, initialY |-> pos.y],
          isInteracting |-> TRUE, created |-> TRUE]

\* handleInteractionStart(e, type), with `pos` the position its closure holds
\* and (clientX, clientY, interactive) read from the event's coordinates/target
handleInteractionStart(type, clientX, clientY, interactive, pos) ==
    IF type = "drag" /\ interactive
    THEN [ref |-> interactionRef, isInteracting |-> isInteracting, created |-> FALSE]
    ELSE IF ~mounted
    THEN [ref |-> interactionRef, isInteracting |-> isInteracting, created |-> FALSE]
    ELSE [ref |-> [type |-> type, startX |-> clientX, startY |-> clientY,
                   initialWidth |-> offsetWidth, initialHeight |-> offsetHeight,
                   initialX |-> pos.x, initialY |-> pos.y],
          isInteracting |-> TRUE, created |-> TRUE]

\* a drag clamp that keeps the right/bottom edge inside only (what C1 rules out)
dragAxisFarEdgeOnly(initialPos, d, initialDim, viewportDim) ==
    LET newPos == initialPos + d
    IN  IF props.boundary
        THEN Min(newPos, viewportDim - initialDim)
        ELSE newPos

\* drag branch of handleInteractionMove, one axis
\* a drag that clamps to the viewport whether boundary is on or off (what
\* C27 rules out)
dragAxisAlwaysClamped(initialPos, d, initialDim, viewportDim) ==
    Max(0, Min(initialPos + d, viewportDim - initialDim))

dragAxis(initialPos, d, initialDim, viewportDim) ==
    LET newPos == initialPos + d
    IN  IF props.boundary
        THEN Max(0, Min(newPos, viewportDim - initialDim))
        ELSE newPos

\* a resize whose left/top edge follows the pointer whatever the clamped
\* size (what C11 rules out)
resizeAxisEdgeFollowsPointer(far, near, initialPos, initialDim, d, minDim, effectiveMax, viewportDim) ==
    LET newDim == IF near THEN initialDim - d
                  ELSE IF far THEN initialDim + d ELSE initialDim
        constrained == Max(minDim, MinMax(newDim, effectiveMax))
        newPos == IF near THEN initialPos + d ELSE initialPos
    IN  [pos |-> newPos, dim |-> constrained]

\* a resize without the minimum floor (what C12 rules out)
resizeAxisNoMinimum(far, near, initialPos, initialDim, d, minDim, effectiveMax, viewportDim) ==
    LET newDim == IF near THEN initialDim - d
                  ELSE IF far THEN initialDim + d ELSE initialDim
        constrained == MinMax(newDim, effectiveMax)
        newPos == IF near THEN initialPos + (initialDim - constrained) ELSE initialPos
    IN  [pos |-> newPos, dim |-> constrained]

\* a resize without the maximum clamp (what C2 rules out)
resizeAxisNoMaximum(far, near, initialPos, initialDim, d, minDim, effectiveMax, viewportDim) ==
    LET newDim == IF near THEN initialDim - d
                  ELSE IF far THEN initialDim + d ELSE initialDim
        constrained == Max(minDim, newDim)
        newPos == IF near THEN initialPos + (initialDim - constrained) ELSE initialPos
    IN  [pos |-> newPos, dim |-> constrained]

\* resize branch of handleInteractionMove, one axis: `far` is right/bottom in
\* the type, `near` is left/top
\* a resize whose boundary block does not clamp the near edge at 0 (what C23
\* rules out)
resizeAxisNoNearClamp(far, near, initialPos, initialDim, d, minDim, effectiveMax, viewportDim) ==
    LET newDim == IF near THEN initialDim - d
                  ELSE IF far THEN initialDim + d ELSE initialDim
        constrained == Max(minDim, MinMax(newDim, effectiveMax))
        newPos == IF near THEN initialPos + (initialDim - constrained) ELSE initialPos
        c2 == IF newPos + constrained > viewportDim THEN viewportDim - newPos ELSE constrained
    IN  IF props.boundary
        THEN [pos |-> newPos, dim |-> Max(minDim, c2)]
        ELSE [pos |-> newPos, dim |-> constrained]

\* a resize that adjusts the position of a left/top edge before the
\* maximum-size clamp (what C24 rules out)
resizeAxisPositionBeforeMax(far, near, initialPos, initialDim, d, minDim, effectiveMax, viewportDim) ==
    LET newDim == IF near THEN initialDim - d
                  ELSE IF far THEN initialDim + d ELSE initialDim
        constrained == Max(minDim, MinMax(newDim, effectiveMax))
        newPos == IF near THEN initialPos + (initialDim - Max(minDim, newDim)) ELSE initialPos
        c1 == IF newPos < 0 THEN constrained + newPos ELSE constrained
        p1 == IF newPos < 0 THEN 0 ELSE newPos
        c2 == IF p1 + c1 > viewportDim THEN viewportDim - p1 ELSE c1
        c3 == Max(minDim, c2)
    IN  IF props.boundary
        THEN [pos |-> p1, dim |-> c3]
        ELSE [pos |-> newPos, dim |-> constrained]

resizeAxis(far, near, initialPos, initialDim, d, minDim, effectiveMax, viewportDim) ==
    LET newDim == IF near THEN initialDim - d
                  ELSE IF far THEN initialDim + d ELSE initialDim
        constrained == Max(minDim, MinMax(newDim, effectiveMax))
        newPos == IF near THEN initialPos + (initialDim - constrained) ELSE initialPos
        c1 == IF newPos < 0 THEN constrained + newPos ELSE constrained
        p1 == IF newPos < 0 THEN 0 ELSE newPos
        c2 == IF p1 + c1 > viewportDim THEN viewportDim - p1 ELSE c1
        c3 == Max(minDim, c2)
    IN  IF props.boundary
        THEN [pos |-> p1, dim |-> c3]
        ELSE [pos |-> newPos, dim |-> constrained]

\* a move handler whose drag branch also writes the size it captured at
\* session start (what C14 rules out)
handleInteractionMoveSizing(clientX, clientY) ==
    LET ref == interactionRef
        dx == clientX - ref.startX
        dy == clientY - ref.startY
    IN  IF ref.type = "none"
        THEN [position |-> position, size |-> size,
              posWritten |-> FALSE, sizeWritten |-> FALSE]
        ELSE [position |->
                [x |-> dragAxis(ref.initialX, dx, ref.initialWidth, viewportSize.width),
                 y |-> dragAxis(ref.initialY, dy, ref.initialHeight, viewportSize.height)],
              size |-> [w |-> Px(ref.initialWidth), h |-> Px(ref.initialHeight)],
              posWritten |-> TRUE, sizeWritten |-> TRUE]

\* a move handler that adds the pointer's offset to the current position
\* rather than to the position recorded at session start (what C33 rules out)
handleInteractionMoveFromCurrent(clientX, clientY) ==
    LET ref == interactionRef
        dx == clientX - ref.startX
        dy == clientY - ref.startY
    IN  IF ref.type = "none"
        THEN [position |-> position, size |-> size,
              posWritten |-> FALSE, sizeWritten |-> FALSE]
        ELSE IF ref.type = "drag"
        THEN [position |->
                [x |-> dragAxis(position.x, dx, ref.initialWidth, viewportSize.width),
                 y |-> dragAxis(position.y, dy, ref.initialHeight, viewportSize.height)],
              size |-> size, posWritten |-> TRUE, sizeWritten |-> FALSE]
        ELSE LET ax == resizeAxis(IncludesRight(ref.type), IncludesLeft(ref.type),
                                  position.x, ref.initialWidth, dx,
                                  props.minW, effectiveMaxW, viewportSize.width)
                 ay == resizeAxis(IncludesBottom(ref.type), IncludesTop(ref.type),
                                  position.y, ref.initialHeight, dy,
                                  props.minH, effectiveMaxH, viewportSize.height)
             IN  [position |-> [x |-> ax.pos, y |-> ay.pos],
                  size |-> [w |-> Px(ax.dim), h |-> Px(ay.dim)],
                  posWritten |-> TRUE, sizeWritten |-> TRUE]

\* a move handler without the check for a session, moving the window by the
\* pointer's coordinates when there is none (what C35 rules out)
handleInteractionMoveWithoutSessionCheck(clientX, clientY) ==
    LET ref == interactionRef
        dx == clientX - ref.startX
        dy == clientY - ref.startY
    IN  IF ref.type \in {"none", "drag"}
        THEN [position |->
                [x |-> dragAxis(ref.initialX, dx, ref.initialWidth, viewportSize.width),
                 y |-> dragAxis(ref.initialY, dy, ref.initialHeight, viewportSize.height)],
              size |-> size, posWritten |-> TRUE, sizeWritten |-> FALSE]
        ELSE LET ax == resizeAxis(IncludesRight(ref.type), IncludesLeft(ref.type),
                                  ref.initialX, ref.initialWidth, dx,
                                  props.minW, effectiveMaxW, viewportSize.width)
                 ay == resizeAxis(IncludesBottom(ref.type), IncludesTop(ref.type),
                                  ref.initialY, ref.initialHeight, dy,
                                  props.minH, effectiveMaxH, viewportSize.height)
             IN  [position |-> [x |-> ax.pos, y |-> ay.pos],
                  size |-> [w |-> Px(ax.dim), h |-> Px(ay.dim)],
                  posWritten |-> TRUE, sizeWritten |-> TRUE]

\* a move handler that clamps against the viewport of the first render, as a
\* listener never registered anew would (what C26 rules out)
handleInteractionMoveFirstViewport(clientX, clientY) ==
    LET ref == interactionRef
        dx == clientX - ref.startX
        dy == clientY - ref.startY
        vw == CHOOSE v \in layout.widths : \A u \in layout.widths : u <= v
        vh == CHOOSE v \in layout.heights : \A u \in layout.heights : u <= v
        maxW0 == IF props.maxW.tag = "viewport" THEN Px(vw) ELSE props.maxW
        maxH0 == IF props.maxH.tag = "viewport" THEN Px(vh) ELSE props.maxH
    IN  IF ref.type = "none"
        THEN [position |-> position, size |-> size,
              posWritten |-> FALSE, sizeWritten |-> FALSE]
        ELSE IF ref.type = "drag"
        THEN [position |->
                [x |-> dragAxis(ref.initialX, dx, ref.initialWidth, vw),
                 y |-> dragAxis(ref.initialY, dy, ref.initialHeight, vh)],
              size |-> size, posWritten |-> TRUE, sizeWritten |-> FALSE]
        ELSE LET ax == resizeAxis(IncludesRight(ref.type), IncludesLeft(ref.type),
                                  ref.initialX, ref.initialWidth, dx,
                                  props.minW, maxW0, vw)
                 ay == resizeAxis(IncludesBottom(ref.type), IncludesTop(ref.type),
                                  ref.initialY, ref.initialHeight, dy,
                                  props.minH, maxH0, vh)
             IN  [position |-> [x |-> ax.pos, y |-> ay.pos],
                  size |-> [w |-> Px(ax.dim), h |-> Px(ay.dim)],
                  posWritten |-> TRUE, sizeWritten |-> TRUE]

\* handleInteractionMove(e) with (clientX, clientY) the event's coordinates
handleInteractionMove(clientX, clientY) ==
    LET ref == interactionRef
        dx == clientX - ref.startX
        dy == clientY - ref.startY
    IN  IF ref.type = "none"
        THEN [position |-> position, size |-> size,
              posWritten |-> FALSE, sizeWritten |-> FALSE]
        ELSE IF ref.type = "drag"
        THEN [position |->
                [x |-> dragAxis(ref.initialX, dx, ref.initialWidth, viewportSize.width),
                 y |-> dragAxis(ref.initialY, dy, ref.initialHeight, viewportSize.height)],
              size |-> size, posWritten |-> TRUE, sizeWritten |-> FALSE]
        ELSE LET ax == resizeAxis(IncludesRight(ref.type), IncludesLeft(ref.type),
                                  ref.initialX, ref.initialWidth, dx,
                                  props.minW, effectiveMaxW, viewportSize.width)
                 ay == resizeAxis(IncludesBottom(ref.type), IncludesTop(ref.type),
                                  ref.initialY, ref.initialHeight, dy,
                                  props.minH, effectiveMaxH, viewportSize.height)
             IN  [position |-> [x |-> ax.pos, y |-> ay.pos],
                  size |-> [w |-> Px(ax.dim), h |-> Px(ay.dim)],
                  posWritten |-> TRUE, sizeWritten |-> TRUE]

\* an end handler that leaves isInteracting set (what C18 rules out)
handleInteractionEndKeepingFlag ==
    [holds |-> clearTimeout(holds, dragHoldTimerRef), coords |-> NoCoords,
     ref |-> NoSession, isInteracting |-> isInteracting]

\* handleInteractionEnd()
handleInteractionEnd ==
    [holds |-> clearTimeout(holds, dragHoldTimerRef), coords |-> NoCoords,
     ref |-> NoSession, isInteracting |-> FALSE]

\* cancelDragHold()
cancelDragHold(h) ==
    [holds |-> clearTimeout(h, dragHoldTimerRef), coords |-> NoCoords]

MOVEMENT_THRESHOLD == 10

\* the test of handleDragTouchMove: the touch left the threshold box around c
beyondThreshold(c, clientX, clientY) ==
    Abs(clientX - c.x) > MOVEMENT_THRESHOLD \/ Abs(clientY - c.y) > MOVEMENT_THRESHOLD

\* a touch-move handler that never cancels the hold (what C28 rules out)
handleDragTouchMoveNeverCancels(h, clientX, clientY) ==
    [holds |-> h, coords |-> touchStartCoordsRef]

\* handleDragTouchMove(e)
handleDragTouchMove(h, clientX, clientY) ==
    IF ~touchStartCoordsRef.set
    THEN [holds |-> h, coords |-> touchStartCoordsRef]
    ELSE IF beyondThreshold(touchStartCoordsRef, clientX, clientY)
    THEN cancelDragHold(h)
    ELSE [holds |-> h, coords |-> touchStartCoordsRef]

\* The earlier revision (src/lib/WindowComponent.jsx) has no
\* touchStartCoordsRef; its other state and its handleInteractionStart,
\* handleInteractionMove and effects read as those above.
\* cancelDragHold() of the earlier revision, which is also its onTouchMove
libCancelDragHold(h) == [holds |-> clearTimeout(h, dragHoldTimerRef)]

\* handleInteractionEnd() of the earlier revision
libHandleInteractionEnd ==
    [holds |-> clearTimeout(holds, dragHoldTimerRef),
     ref |-> NoSession, isInteracting |-> FALSE]

\* one dimension of the reconcile effect: the maximum-size clamp
reconcileSize(s, effectiveMax) ==
    IF IsNumber(s) /\ Exceeds(s.v, effectiveMax) THEN Px(effectiveMax.v) ELSE s

\* a boundary clamp that applies one clamp per pass, the left/top one first
\* (what C32 rules out)
reconcilePosOneClampPerPass(p, renderedDim, viewportDim) ==
    IF ~props.boundary THEN p
    ELSE IF p < 0 THEN 0
    ELSE IF p + renderedDim > viewportDim THEN viewportDim - renderedDim
    ELSE p

\* a boundary clamp of the far edge only, leaving a negative position as it
\* is (what C8 rules out)
reconcilePosFarEdgeOnly(p, renderedDim, viewportDim) ==
    IF ~props.boundary THEN p
    ELSE IF p + renderedDim > viewportDim THEN viewportDim - renderedDim
    ELSE p

\* one axis of the reconcile effect: the boundary clamp of the position,
\* against the rendered dimension
reconcilePos(p, renderedDim, viewportDim) ==
    LET p1 == IF p < 0 THEN 0 ELSE p
    IN  IF ~props.boundary THEN p
        ELSE IF p1 + renderedDim > viewportDim THEN viewportDim - renderedDim
        ELSE p1

\* posNeedsUpdate of one axis
reconcilePosNeedsUpdate(p, renderedDim, viewportDim) ==
    props.boundary /\ (p < 0 \/ Max(p, 0) + renderedDim > viewportDim)

\* the body of the reconcile effect
reconcile ==
    LET newW == reconcileSize(size.w, effectiveMaxW)
        newH == reconcileSize(size.h, effectiveMaxH)
        newX == reconcilePos(position.x, offsetWidth, viewportSize.width)
        newY == reconcilePos(position.y, offsetHeight, viewportSize.height)
        posNeedsUpdate ==
            \/ reconcilePosNeedsUpdate(position.x, offsetWidth, viewportSize.width)
            \/ reconcilePosNeedsUpdate(position.y, offsetHeight, viewportSize.height)
        sizeNeedsUpdate == newW # size.w \/ newH # size.h
    IN  [position |-> IF posNeedsUpdate THEN [x |-> newX, y |-> newY] ELSE position,
         size |-> IF sizeNeedsUpdate THEN [w |-> newW, h |-> newH] ELSE size,
         posWritten |-> posNeedsUpdate, sizeWritten |-> sizeNeedsUpdate]

-----------------------------------------------------------------------------
(* Style resolution *)

\* JavaScript values met by the style resolvers.  A string is Str(s); a
\* function is Fn(name); an object is Obj(name).
undefined == [kind |-> "undefined"]

Str(s) == [kind |-> "string", v |-> s]

Fn(name) == [kind |-> "function", v |-> name]

Obj(name) == [kind |-> "object", v |-> name]

\* the outcome of an expression that throws
TypeError == [kind |-> "TypeError"]

\* ToBoolean, as `||` and `if` apply it
truthy(val) ==
    \/ val.kind \in {"function", "object"}
    \/ val.kind = "string" /\ val.v # ""

\* The lookup tables are object literals, so they inherit the properties of
\* Object.prototype.
ObjectPrototype ==
    ("constructor" :> Fn("Object") @@ "toString" :> Fn("toString")
     @@ "valueOf" :> Fn("valueOf") @@ "hasOwnProperty" :> Fn("hasOwnProperty")
     @@ "__proto__" :> Obj("Object.prototype"))

\* map[key]: an own property, else an inherited one, else undefined
Get(map, key) ==
    IF key \in DOMAIN map THEN map[key]
    ELSE IF key \in DOMAIN ObjectPrototype THEN ObjectPrototype[key]
    ELSE undefined

\* a || b
Or(a, b) == IF truthy(a) THEN a ELSE b

\* NaN, among opacities counted in hundredths (none of which is negative)
NaN == -1

\* opacities are percentages
MaxPercent == 100

\* parseInt(o, 10) of a string that is a decimal numeral or holds no digit
\* String(n) of the integers 0..MaxPercent
numerals == [n \in 0..MaxPercent |-> ToString(n)]

\* the integer a numeral denotes
numeralValue ==
    [s \in {numerals[n] : n \in 0..MaxPercent} |-> CHOOSE n \in 0..MaxPercent : numerals[n] = s]

parseInt(o) ==
    IF o \in DOMAIN numeralValue THEN numeralValue[o] ELSE NaN

\* A style token is modelled by its segments between '/': 'blue-500/30' is
\* <<"blue-500", "30">> and '' is <<"">>.  `const [n, o = dflt] = c.split('/')`
first(c) == c[1]

second(c, dflt) == IF Len(c) >= 2 THEN c[2] ELSE dflt

\* !c of a token
empty(c) == c = <<"">>

colorMap ==
    ("red-50" :> Str("254 242 242") @@ "red-100" :> Str("254 226 226") @@ "red-200" :> Str("252 165 165")
     @@ "red-300" :> Str("248 113 113") @@ "red-400" :> Str("239 68 68") @@ "red-500" :> Str("239 68 68")
     @@ "red-600" :> Str("220 38 38") @@ "red-700" :> Str("185 28 28") @@ "red-800" :> Str("153 27 27")
     @@ "red-900" :> Str("127 29 29") @@ "blue-50" :> Str("239 246 255") @@ "blue-100" :> Str("219 234 254")
     @@ "blue-200" :> Str("191 219 254") @@ "blue-300" :> Str("147 197 253") @@ "blue-400" :> Str("96 165 250")
     @@ "blue-500" :> Str("59 130 246") @@ "blue-600" :> Str("37 99 235") @@ "blue-700" :> Str("29 78 216")
     @@ "blue-800" :> Str("30 64 175") @@ "blue-900" :> Str("30 58 138") @@ "green-50" :> Str("240 253 244")
     @@ "green-100" :> Str("220 252 231") @@ "green-200" :> Str("187 247 208") @@ "green-300" :> Str("134 239 172")
     @@ "green-400" :> Str("74 222 128") @@ "green-500" :> Str("34 197 94") @@ "green-600" :> Str("22 163 74")
     @@ "green-700" :> Str("21 128 61") @@ "green-800" :> Str("22 101 52") @@ "green-900" :> Str("20 83 45")
     @@ "yellow-50" :> Str("254 252 232") @@ "yellow-100" :> Str("254 249 195") @@ "yellow-200" :> Str("254 240 138")
     @@ "yellow-300" :> Str("253 224 71") @@ "yellow-400" :> Str("250 204 21") @@ "yellow-500" :> Str("234 179 8")
     @@ "yellow-600" :> Str("202 138 4") @@ "yellow-700" :> Str("161 98 7") @@ "yellow-800" :> Str("133 77 14")
     @@ "yellow-900" :> Str("113 63 18") @@ "purple-50" :> Str("250 245 255") @@ "purple-100" :> Str("243 232 255")
     @@ "purple-200" :> Str("233 213 255") @@ "purple-300" :> Str("196 181 253") @@ "purple-400" :> Str("167 139 250")
     @@ "purple-500" :> Str("139 92 246") @@ "purple-600" :> Str("124 58 237") @@ "purple-700" :> Str("109 40 217")
     @@ "purple-800" :> Str("91 33 182") @@ "purple-900" :> Str("76 29 149") @@ "pink-50" :> Str("253 242 248")
     @@ "pink-100" :> Str("252 231 243") @@ "pink-200" :> Str("251 207 232") @@ "pink-300" :> Str("249 168 212")
     @@ "pink-400" :> Str("244 114 182") @@ "pink-500" :> Str("236 72 153") @@ "pink-600" :> Str("219 39 119")
     @@ "pink-700" :> Str("190 24 93") @@ "pink-800" :> Str("157 23 77") @@ "pink-900" :> Str("131 24 67")
     @@ "indigo-50" :> Str("238 242 255") @@ "indigo-100" :> Str("224 231 255") @@ "indigo-200" :> Str("199 210 254")
     @@ "indigo-300" :> Str("165 180 252") @@ "indigo-400" :> Str("129 140 248") @@ "indigo-500" :> Str("99 102 241")
     @@ "indigo-600" :> Str("79 70 229") @@ "indigo-700" :> Str("67 56 202") @@ "indigo-800" :> Str("55 48 163")
     @@ "indigo-900" :> Str("49 46 129") @@ "gray-50" :> Str("249 250 251") @@ "gray-100" :> Str("243 244 246")
     @@ "gray-200" :> Str("229 231 235") @@ "gray-300" :> Str("209 213 219") @@ "gray-400" :> Str("156 163 175")
     @@ "gray-500" :> Str("107 114 128") @@ "gray-600" :> Str("75 85 99") @@ "gray-700" :> Str("55 65 81")
     @@ "gray-800" :> Str("31 41 55") @@ "gray-900" :> Str("17 24 39") @@ "slate-50" :> Str("248 250 252")
     @@ "slate-100" :> Str("241 245 249") @@ "slate-200" :> Str("226 232 240") @@ "slate-300" :> Str("203 213 225")
     @@ "slate-400" :> Str("148 163 184") @@ "slate-500" :> Str("100 116 139") @@ "slate-600" :> Str("71 85 105")
     @@ "slate-700" :> Str("51 65 85") @@ "slate-800" :> Str("30 41 59") @@ "slate-900" :> Str("15 23 42")
     @@ "zinc-50" :> Str("250 250 250") @@ "zinc-100" :> Str("244 244 245") @@ "zinc-200" :> Str("228 228 231")
     @@ "zinc-300" :> Str("212 212 216") @@ "zinc-400" :> Str("161 161 170") @@ "zinc-500" :> Str("113 113 122")
     @@ "zinc-600" :> Str("82 82 91") @@ "zinc-700" :> Str("63 63 70") @@ "zinc-800" :> Str("39 39 42")
     @@ "zinc-900" :> Str("24 24 27") @@ "emerald-50" :> Str("236 253 245") @@ "emerald-100" :> Str("209 250 229")
     @@ "emerald-200" :> Str("167 243 208") @@ "emerald-300" :> Str("110 231 183") @@ "emerald-400" :> Str("52 211 153")
     @@ "emerald-500" :> Str("16 185 129") @@ "emerald-600" :> Str("5 150 105") @@ "emerald-700" :> Str("4 120 87")
     @@ "emerald-800" :> Str("6 95 70") @@ "emerald-900" :> Str("6 78 59"))

\* rgb.split(' ') of the strings of colorMap and of the default
splitSpace ==
    ("100 116 139" :> <<"100", "116", "139">> @@ "107 114 128" :> <<"107", "114", "128">>
     @@ "109 40 217" :> <<"109", "40", "217">> @@ "110 231 183" :> <<"110", "231", "183">>
     @@ "113 113 122" :> <<"113", "113", "122">> @@ "113 63 18" :> <<"113", "63", "18">>
     @@ "124 58 237" :> <<"124", "58", "237">> @@ "127 29 29" :> <<"127", "29", "29">>
     @@ "129 140 248" :> <<"129", "140", "248">> @@ "131 24 67" :> <<"131", "24", "67">>
     @@ "133 77 14" :> <<"133", "77", "14">> @@ "134 239 172" :> <<"134", "239", "172">>
     @@ "139 92 246" :> <<"139", "92", "246">> @@ "147 197 253" :> <<"147", "197", "253">>
     @@ "148 163 184" :> <<"148", "163", "184">> @@ "15 23 42" :> <<"15", "23", "42">>
     @@ "153 27 27" :> <<"153", "27", "27">> @@ "156 163 175" :> <<"156", "163", "175">>
     @@ "157 23 77" :> <<"157", "23", "77">> @@ "16 185 129" :> <<"16", "185", "129">>
     @@ "161 161 170" :> <<"161", "161", "170">> @@ "161 98 7" :> <<"161", "98", "7">>
     @@ "165 180 252" :> <<"165", "180", "252">> @@ "167 139 250" :> <<"167", "139", "250">>
     @@ "167 243 208" :> <<"167", "243", "208">> @@ "17 24 39" :> <<"17", "24", "39">>
     @@ "185 28 28" :> <<"185", "28", "28">> @@ "187 247 208" :> <<"187", "247", "208">>
     @@ "190 24 93" :> <<"190", "24", "93">> @@ "191 219 254" :> <<"191", "219", "254">>
     @@ "196 181 253" :> <<"196", "181", "253">> @@ "199 210 254" :> <<"199", "210", "254">>
     @@ "20 83 45" :> <<"20", "83", "45">> @@ "202 138 4" :> <<"202", "138", "4">>
     @@ "203 213 225" :> <<"203", "213", "225">> @@ "209 213 219" :> <<"209", "213", "219">>
     @@ "209 250 229" :> <<"209", "250", "229">> @@ "21 128 61" :> <<"21", "128", "61">>
     @@ "212 212 216" :> <<"212", "212", "216">> @@ "219 234 254" :> <<"219", "234", "254">>
     @@ "219 39 119" :> <<"219", "39", "119">> @@ "22 101 52" :> <<"22", "101", "52">>
     @@ "22 163 74" :> <<"22", "163", "74">> @@ "220 252 231" :> <<"220", "252", "231">>
     @@ "220 38 38" :> <<"220", "38", "38">> @@ "224 231 255" :> <<"224", "231", "255">>
     @@ "226 232 240" :> <<"226", "232", "240">> @@ "228 228 231" :> <<"228", "228", "231">>
     @@ "229 231 235" :> <<"229", "231", "235">> @@ "233 213 255" :> <<"233", "213", "255">>
     @@ "234 179 8" :> <<"234", "179", "8">> @@ "236 253 245" :> <<"236", "253", "245">>
     @@ "236 72 153" :> <<"236", "72", "153">> @@ "238 242 255" :> <<"238", "242", "255">>
     @@ "239 246 255" :> <<"239", "246", "255">> @@ "239 68 68" :> <<"239", "68", "68">>
     @@ "24 24 27" :> <<"24", "24", "27">> @@ "240 253 244" :> <<"240", "253", "244">>
     @@ "241 245 249" :> <<"241", "245", "249">> @@ "243 232 255" :> <<"243", "232", "255">>
     @@ "243 244 246" :> <<"243", "244", "246">> @@ "244 114 182" :> <<"244", "114", "182">>
     @@ "244 244 245" :> <<"244", "244", "245">> @@ "248 113 113" :> <<"248", "113", "113">>
     @@ "248 250 252" :> <<"248", "250", "252">> @@ "249 168 212" :> <<"249", "168", "212">>
     @@ "249 250 251" :> <<"249", "250", "251">> @@ "250 204 21" :> <<"250", "204", "21">>
     @@ "250 245 255" :> <<"250", "245", "255">> @@ "250 250 250" :> <<"250", "250", "250">>
     @@ "251 207 232" :> <<"251", "207", "232">> @@ "252 165 165" :> <<"252", "165", "165">>
     @@ "252 231 243" :> <<"252", "231", "243">> @@ "253 224 71" :> <<"253", "224", "71">>
     @@ "253 242 248" :> <<"253", "242", "248">> @@ "254 226 226" :> <<"254", "226", "226">>
     @@ "254 240 138" :> <<"254", "240", "138">> @@ "254 242 242" :> <<"254", "242", "242">>
     @@ "254 249 195" :> <<"254", "249", "195">> @@ "254 252 232" :> <<"254", "252", "232">>
     @@ "29 78 216" :> <<"29", "78", "216">> @@ "30 41 59" :> <<"30", "41", "59">>
     @@ "30 58 138" :> <<"30", "58", "138">> @@ "30 64 175" :> <<"30", "64", "175">>
     @@ "31 41 55" :> <<"31", "41", "55">> @@ "34 197 94" :> <<"34", "197", "94">>
     @@ "37 99 235" :> <<"37", "99", "235">> @@ "39 39 42" :> <<"39", "39", "42">>
     @@ "4 120 87" :> <<"4", "120", "87">> @@ "49 46 129" :> <<"49", "46", "129">>
     @@ "5 150 105" :> <<"5", "150", "105">> @@ "51 65 85" :> <<"51", "65", "85">>
     @@ "52 211 153" :> <<"52", "211", "153">> @@ "55 48 163" :> <<"55", "48", "163">>
     @@ "55 65 81" :> <<"55", "65", "81">> @@ "59 130 246" :> <<"59", "130", "246">>
     @@ "6 78 59" :> <<"6", "78", "59">> @@ "6 95 70" :> <<"6", "95", "70">>
     @@ "63 63 70" :> <<"63", "63", "70">> @@ "67 56 202" :> <<"67", "56", "202">>
     @@ "71 85 105" :> <<"71", "85", "105">> @@ "74 222 128" :> <<"74", "222", "128">>
     @@ "75 85 99" :> <<"75", "85", "99">> @@ "76 29 149" :> <<"76", "29", "149">>
     @@ "79 70 229" :> <<"79", "70", "229">> @@ "82 82 91" :> <<"82", "82", "91">>
     @@ "91 33 182" :> <<"91", "33", "182">> @@ "96 165 250" :> <<"96", "165", "250">>
     @@ "99 102 241" :> <<"99", "102", "241">>)

\* the default of getColorValue
defaultRgb == Str("107 114 128")

\* an rgba(...) string: the joined components and the alpha in hundredths
Rgba(parts, a) == [kind |-> "string", css |-> "rgba", rgb |-> parts, alpha |-> a]

\* getColorValue ignoring the opacity segment
getColorValueOpaque(c) ==
    IF empty(c) THEN undefined
    ELSE LET rgb == Or(Get(colorMap, first(c)), defaultRgb)
         IN  IF rgb.kind # "string" THEN TypeError
             ELSE Rgba(splitSpace[rgb.v], parseInt("100"))

getColorValue(c) ==
    IF empty(c) THEN undefined
    ELSE LET n == first(c)
             o == second(c, "100")
             rgb == Or(Get(colorMap, n), defaultRgb)
         IN  IF rgb.kind # "string" THEN TypeError
             ELSE Rgba(splitSpace[rgb.v], parseInt(o))

radiusMap ==
    ("none" :> Str("0") @@ "sm" :> Str("0.125rem") @@ "" :> Str("0.25rem")
     @@ "md" :> Str("0.375rem") @@ "lg" :> Str("0.5rem") @@ "xl" :> Str("0.75rem")
     @@ "2xl" :> Str("1rem") @@ "3xl" :> Str("1.5rem") @@ "4xl" :> Str("2rem")
     @@ "5xl" :> Str("2.5rem") @@ "6xl" :> Str("3rem") @@ "7xl" :> Str("3.5rem")
     @@ "8xl" :> Str("4rem") @@ "9xl" :> Str("4.5rem") @@ "10xl" :> Str("5rem")
     @@ "11xl" :> Str("5.5rem") @@ "12xl" :> Str("6rem") @@ "full" :> Str("9999px"))

getBorderRadius(r) == Or(Get(radiusMap, r), Str("0.25rem"))

shadowMap ==
    ("none" :> Str("none") @@ "sm" :> Fn("sm") @@ "" :> Fn("")
     @@ "md" :> Fn("md") @@ "lg" :> Fn("lg") @@ "xl" :> Fn("xl")
     @@ "2xl" :> Fn("2xl") @@ "3xl" :> Fn("3xl") @@ "4xl" :> Fn("4xl")
     @@ "5xl" :> Fn("5xl") @@ "6xl" :> Fn("6xl") @@ "7xl" :> Fn("7xl"))

\* a box-shadow string built by the function shadowMap[preset] from the
\* opacity a (hundredths)
BoxShadow(preset, a) == [kind |-> "string", css |-> "box-shadow", preset |-> preset, a |-> a]

\* f(a), called without a receiver
Call(f, a) ==
    IF f.kind # "function" THEN TypeError
    ELSE IF f.v \in DOMAIN shadowMap THEN BoxShadow(f.v, a)
    ELSE IF f.v = "Object" THEN Obj("Number")
    ELSE IF f.v = "toString" THEN Str("[object Undefined]")
    ELSE TypeError

getBoxShadow(s) ==
    IF empty(s) THEN undefined
    ELSE LET z == first(s)
             o == second(s, "50")
             a == parseInt(o)
         IN  Call(Or(Get(shadowMap, z), shadowMap[""]), a)

blurMap ==
    ("none" :> Str("none") @@ "sm" :> Str("blur(4px)") @@ "" :> Str("blur(8px)")
     @@ "md" :> Str("blur(12px)") @@ "lg" :> Str("blur(16px)") @@ "xl" :> Str("blur(24px)")
     @@ "2xl" :> Str("blur(40px)") @@ "3xl" :> Str("blur(64px)") @@ "4xl" :> Str("blur(96px)")
     @@ "5xl" :> Str("blur(128px)") @@ "6xl" :> Str("blur(160px)") @@ "7xl" :> Str("blur(192px)"))

\* String(val), as Array.prototype.join applies it to an element
ToStr(val) == IF val.kind = "string" THEN val.v ELSE "function Object() { [native code] }"

\* b is a blur key, s a saturation percentage; the result lists the joined
\* filters
getBackdropFilter(b, s) ==
    LET f1 == IF b # "" THEN <<ToStr(Or(Get(blurMap, b), Str("blur(8px)")))>> ELSE << >>
        f2 == IF s # "" /\ s # "100" THEN <<"saturate(" \o s \o "%)">> ELSE << >>
        f == f1 \o f2
    IN  IF Len(f) > 0 THEN [kind |-> "string", css |-> "backdrop-filter", filters |-> f]
        ELSE undefined

\* the style props and their defaults
StyleNames ==
    {"windowColor", "windowBorderColor", "windowBorderRadius", "windowShadow",
     "windowBackgroundBlur", "windowBackgroundSaturation"}

defaultStyle ==
    [windowColor |-> <<"">>, windowBorderColor |-> <<"">>, windowBorderRadius |-> "",
     windowShadow |-> <<"">>, windowBackgroundBlur |-> "",
     windowBackgroundSaturation |-> "100"]

\* the visual properties of windowStyle computed from props p
windowStyleOf(p) ==
    [backgroundColor |-> getColorValue(p.windowColor),
     borderColor |-> getColorValue(IF ~empty(p.windowBorderColor)
                                   THEN p.windowBorderColor ELSE p.windowColor),
     borderRadius |-> IF p.windowBorderRadius # ""
                      THEN getBorderRadius(p.windowBorderRadius) ELSE undefined,
     boxShadow |-> getBoxShadow(p.windowShadow),
     backdropFilter |-> getBackdropFilter(p.windowBackgroundBlur,
                                          p.windowBackgroundSaturation)]

windowStyle == windowStyleOf(props)

\* the render of props p throws
Throws(p) ==
    LET ws == windowStyleOf(p)
    IN  \E k \in DOMAIN ws : ws[k].kind = "TypeError"

----------------------------------------------------------------------------
(* Initial states: the first render, before its effects have run *)

\* configurations of one axis: minimum, maximum, initial size value, rendered
\* size of an auto/full box, initial position, offered viewport dimensions.
\* The size values given lie within [min, max].
AxisRich(unsized) ==
    [min : {10, 30}, max : {Infinity, Viewport, Px(40)},
     dim : {Px(30), unsized}, rendered : {50}, pos : {0}, viewports : {{20, 50}}]

AxisBase(given) ==
    [min : {10}, max : {Viewport}, dim : {given}, rendered : {50},
     pos : {0}, viewports : {{20, 50}}]

AxisFixed ==
    [min : {10}, max : {Infinity}, dim : {Px(30)}, rendered : {50},
     pos : {0}, viewports : {{50}}]

\* a window of one size (min = max)
AxisRigid(viewports) ==
    [min : {30}, max : {Px(30)}, dim : {Px(30)}, rendered : {30},
     pos : {0}, viewports : {viewports}]

\* the scenario of the viewport shrinking from 800x600 to 400x600 around a
\* window at x = 750 of width 100, minW = 100, maxW = 500
AxisScenarioX ==
    [min : {100}, max : {Px(500)}, dim : {Px(100)}, rendered : {100},
     pos : {750}, viewports : {{400, 800}}]
AxisScenarioY ==
    [min : {100}, max : {Px(500)}, dim : {Px(100)}, rendered : {100},
     pos : {0}, viewports : {{600}}]

\* the scenario of a 300x200 window with minW = minH = 50 (at the default
\* x = y = 50) resized by its bottom-right handle by (-1000, -1000): the
\* pointer goes down at (10, 10) and moves to (-990, -990)
AxisScenario300 ==
    [min : {50}, max : {Infinity}, dim : {Px(300)}, rendered : {300},
     pos : {50}, viewports : {{800}}]
AxisScenario200 ==
    [min : {50}, max : {Infinity}, dim : {Px(200)}, rendered : {200},
     pos : {50}, viewports : {{600}}]
ScenarioCoords == {-990, 10}

SetMax(S) == CHOOSE v \in S : \A u \in S : u <= v

InitWith(ax, ay, b, touch, xs, ys) ==
    /\ props = [minW |-> ax.min, minH |-> ay.min, maxW |-> ax.max, maxH |-> ay.max,
                boundary |-> b] @@ defaultStyle
    /\ layout = [w |-> ax.rendered, h |-> ay.rendered,
                 widths |-> ax.viewports, heights |-> ay.viewports,
                 touch |-> touch, xs |-> xs, ys |-> ys]
    /\ position = [x |-> ax.pos, y |-> ay.pos]
    /\ size = [w |-> ax.dim, h |-> ay.dim]
    /\ viewportSize = [width |-> SetMax(ax.viewports), height |-> SetMax(ay.viewports)]
    /\ isInteracting = FALSE
    /\ interactionRef = NoSession
    /\ mounted = TRUE
    /\ dragHoldTimerRef = 0
    /\ touchStartCoordsRef = NoCoords
    /\ holds = << >>
    /\ fingers = << >>
    /\ listeners = FALSE
    /\ depsChanged = TRUE
    /\ nDowns = 0
    /\ lastAct = Act("mount", 0, FALSE, FALSE, FALSE)

\* The two axes are computed independently of each other, so the pointer of a
\* run moves along one axis (the other coordinate stays at the pointer-down
\* point) over the rich configurations of that axis.  The first viewport is
\* the largest offered.  layout.touch: the content area is touched (on a
\* touch screen, showing a window of one size confined to the viewport).
Init ==
    \/ \E b \in BOOLEAN :
        \/ \E ax \in AxisRich(Auto), ay \in AxisFixed :
               InitWith(ax, ay, b, FALSE, Coords, DownCoords)
        \/ \E ax \in AxisFixed, ay \in AxisBase(Full) :
               InitWith(ax, ay, b, FALSE, DownCoords, Coords)
    \/ \E ax \in AxisScenarioX, ay \in AxisScenarioY :
           InitWith(ax, ay, TRUE, FALSE, Coords, DownCoords)
    \/ \E ax \in AxisRigid({20, 50}), ay \in AxisRigid({50}) :
           InitWith(ax, ay, TRUE, TRUE, Coords, DownCoords)
    \/ \E ax \in AxisScenario300, ay \in AxisScenario200, b \in BOOLEAN :
           InitWith(ax, ay, b, FALSE, ScenarioCoords, ScenarioCoords)

----------------------------------------------------------------------------
(* Steps *)

\* effects of the last render that have not run yet
EffectsPending == mounted /\ (depsChanged \/ listeners # isInteracting)

\* events are dispatched to a mounted component whose effects have run
Ready == mounted /\ ~EffectsPending

PendingHolds == {k \in 1..Len(holds) : holds[k].status = "pending"}

\* a further pointer-down is within the bound
CanStart == nDowns < MaxDowns

\* the state writes of a handler that sets position and size
Write(r) ==
    /\ position' = r.position
    /\ size' = r.size
    /\ depsChanged' = (r.position # position \/ r.size # size)

\* onMouseDown of the content area: handleInteractionStart(e, 'drag')
MouseDownContent(clientX, clientY, interactive) ==
    /\ Ready /\ CanStart
    /\ LET r == handleInteractionStart("drag", clientX, clientY, interactive, position)
       IN  /\ interactionRef' = r.ref
           /\ isInteracting' = r.isInteracting
           /\ nDowns' = nDowns + 1
    /\ lastAct' = Act("mouseDownContent", 0, interactive, FALSE, FALSE)
    /\ UNCHANGED <<fingers, props, layout, position, size, viewportSize, mounted,
                   dragHoldTimerRef, touchStartCoordsRef, holds, listeners,
                   depsChanged>>

\* onMouseDown / onTouchStart of a rendered resize handle:
\* handleInteractionStart(e, handle.type)
PointerDownHandle(type, clientX, clientY) ==
    /\ Ready /\ CanStart
    /\ type \in activeHandles
    /\ LET r == handleInteractionStart(type, clientX, clientY, FALSE, position)
       IN  /\ interactionRef' = r.ref
           /\ isInteracting' = r.isInteracting
           /\ nDowns' = nDowns + 1
    /\ lastAct' = Act("pointerDownHandle", 0, FALSE, FALSE, FALSE)
    /\ UNCHANGED <<fingers, props, layout, position, size, viewportSize, mounted,
                   dragHoldTimerRef, touchStartCoordsRef, holds, listeners,
                   depsChanged>>

\* onTouchStart of the content area: handleDragTouchStart(e).  The timeout's
\* callback keeps the event and the handleInteractionStart of this render,
\* whose closure holds this render's position.
TouchStartContent(clientX, clientY, interactive) ==
    /\ Ready /\ CanStart
    /\ layout.touch
    /\ touchStartCoordsRef' = [set |-> TRUE, x |-> clientX, y |-> clientY]
    /\ holds' = Append(holds, [x |-> clientX, y |-> clientY, interactive |-> interactive,
                               pos |-> position, status |-> "pending",
                               exceeded |-> FALSE])
    /\ fingers' = Append(fingers, Len(holds) + 1)
    /\ nDowns' = nDowns + 1
    /\ dragHoldTimerRef' = Len(holds) + 1
    /\ lastAct' = Act("touchStartContent", Len(holds) + 1, interactive, FALSE, FALSE)
    /\ UNCHANGED <<props, layout, position, size, isInteracting, viewportSize,
                   interactionRef, mounted, listeners, depsChanged>>

\* the timeout of hold k expires: handleInteractionStart(e, 'drag') of the
\* render that set it.  It also runs after the component was unmounted.
HoldTimerFires(k) ==
    /\ ~EffectsPending
    /\ k \in PendingHolds
    /\ LET h == holds[k]
           r == handleInteractionStart("drag", h.x, h.y, h.interactive, h.pos)
       IN  /\ interactionRef' = r.ref
           /\ isInteracting' = r.isInteracting
           /\ lastAct' = Act("holdTimerFires", k, h.interactive, FALSE, FALSE)
    /\ holds' = Settled([holds EXCEPT ![k].status = "settled"])
    /\ UNCHANGED <<nDowns, fingers, props, layout, position, size, viewportSize, mounted,
                   dragHoldTimerRef, touchStartCoordsRef, listeners,
                   depsChanged>>

\* history of the touches: e.touches[0], the point a touchmove reports, is the
\* oldest touch down; it is recorded when that touch left the threshold box
\* around its start while its timeout was pending
MarkExceeded(h, clientX, clientY) ==
    [k \in 1..Len(h) |->
        IF k = Head(fingers) /\ h[k].status = "pending"
           /\ beyondThreshold(h[k], clientX, clientY)
        THEN [h[k] EXCEPT !.exceeded = TRUE] ELSE h[k]]

RemoveAt(s, i) == SubSeq(s, 1, i - 1) \o SubSeq(s, i + 1, Len(s))

\* touchmove of a touch that started on the content area: onTouchMove
\* (handleDragTouchMove) and, bubbling to window, the registered touchmove
\* listener (handleInteractionMove)
TouchMoveContent(clientX, clientY) ==
    /\ Ready
    /\ fingers # << >>
    /\ LET c == handleDragTouchMove(MarkExceeded(holds, clientX, clientY), clientX, clientY)
           m == handleInteractionMove(clientX, clientY)
       IN  /\ holds' = c.holds
           /\ touchStartCoordsRef' = c.coords
           /\ IF listeners
              THEN /\ Write(m)
                   /\ lastAct' = Act("touchMoveContent", 0, FALSE, m.posWritten, m.sizeWritten)
              ELSE /\ UNCHANGED <<position, size, depsChanged>>
                   /\ lastAct' = Act("touchMoveContent", 0, FALSE, FALSE, FALSE)
    /\ UNCHANGED <<fingers, props, layout, isInteracting, viewportSize,
                   interactionRef, mounted, dragHoldTimerRef, listeners, nDowns>>

\* mousemove, or touchmove of a touch that started on a handle, reaching the
\* registered window listener: handleInteractionMove(e)
WindowMove(clientX, clientY) ==
    /\ Ready
    /\ listeners
    /\ LET m == handleInteractionMove(clientX, clientY)
       IN  /\ Write(m)
           /\ lastAct' = Act("windowMove", 0, FALSE, m.posWritten, m.sizeWritten)
    /\ UNCHANGED <<fingers, props, layout, isInteracting, viewportSize, interactionRef,
                   mounted, dragHoldTimerRef, touchStartCoordsRef, holds,
                   listeners, nDowns>>

\* mousemove or touchmove reaching the window listener of a session that has
\* ended, before the cleanup of the listener effect has removed it:
\* handleInteractionMove(e)
WindowMoveBeforeCleanup(clientX, clientY) ==
    /\ mounted /\ ~depsChanged
    /\ listeners /\ ~isInteracting
    /\ LET m == handleInteractionMove(clientX, clientY)
       IN  /\ Write(m)
           /\ lastAct' = Act("windowMove", 0, FALSE, m.posWritten, m.sizeWritten)
    /\ UNCHANGED <<fingers, props, layout, isInteracting, viewportSize, interactionRef,
                   mounted, dragHoldTimerRef, touchStartCoordsRef, holds,
                   listeners, nDowns>>

\* a pointer-up that puts the window back where the session started (what
\* C36 rules out)
WindowEndRestoringStart ==
    /\ Ready
    /\ listeners
    /\ LET r == handleInteractionEnd
       IN  /\ holds' = r.holds
           /\ touchStartCoordsRef' = r.coords
           /\ interactionRef' = r.ref
           /\ isInteracting' = r.isInteracting
    /\ position' = [x |-> interactionRef.initialX, y |-> interactionRef.initialY]
    /\ depsChanged' = (position' # position)
    /\ lastAct' = Act("windowEnd", 0, FALSE, FALSE, FALSE)
    /\ UNCHANGED <<fingers, props, layout, size, viewportSize, mounted,
                   dragHoldTimerRef, listeners, nDowns>>

\* mouseup, mouseleave, or touchend of a touch that started on a handle,
\* reaching the registered window listener: handleInteractionEnd()
WindowEnd ==
    /\ Ready
    /\ listeners
    /\ LET r == handleInteractionEnd
       IN  /\ holds' = r.holds
           /\ touchStartCoordsRef' = r.coords
           /\ interactionRef' = r.ref
           /\ isInteracting' = r.isInteracting
    /\ lastAct' = Act("windowEnd", 0, FALSE, FALSE, FALSE)
    /\ UNCHANGED <<fingers, props, layout, position, size, viewportSize, mounted,
                   dragHoldTimerRef, listeners, depsChanged, nDowns>>

\* touchend of the i-th touch that started on the content area: onTouchEnd
\* (cancelDragHold) and, bubbling to window, the registered touchend listener
\* (handleInteractionEnd)
TouchEndContent(i) ==
    /\ Ready
    /\ i \in 1..Len(fingers)
    /\ LET c == cancelDragHold(holds)
           r == handleInteractionEnd
       IN  /\ holds' = c.holds
           /\ touchStartCoordsRef' = c.coords
           /\ interactionRef' = IF listeners THEN r.ref ELSE interactionRef
           /\ isInteracting' = IF listeners THEN r.isInteracting ELSE isInteracting
    /\ fingers' = RemoveAt(fingers, i)
    /\ lastAct' = Act("touchEndContent", 0, FALSE, FALSE, FALSE)
    /\ UNCHANGED <<props, layout, position, size, viewportSize, mounted,
                   dragHoldTimerRef, listeners, depsChanged, nDowns>>

\* touchcancel of the i-th touch that started on the content area, or (i = 0)
\* of the touch on a handle that started the resize session: the content area
\* binds no onTouchCancel and the listener effect registers no touchcancel
\* listener, so no handler runs
TouchCancel(i) ==
    /\ Ready
    /\ IF i = 0 THEN interactionRef.type \in ResizeTypes ELSE i \in 1..Len(fingers)
    /\ fingers' = IF i = 0 THEN fingers ELSE RemoveAt(fingers, i)
    /\ lastAct' = Act("touchCancel", 0, FALSE, FALSE, FALSE)
    /\ UNCHANGED <<props, layout, position, size, isInteracting, viewportSize,
                   interactionRef, mounted, dragHoldTimerRef, touchStartCoordsRef,
                   holds, listeners, depsChanged, nDowns>>

\* window 'resize': handleResize() stores a new viewportSize object
handleResize(width, height) ==
    /\ Ready
    /\ width \in layout.widths /\ height \in layout.heights
    /\ viewportSize' = [width |-> width, height |-> height]
    /\ depsChanged' = TRUE
    /\ lastAct' = Act("handleResize", 0, FALSE, FALSE, FALSE)
    /\ UNCHANGED <<fingers, props, layout, position, size, isInteracting, interactionRef,
                   mounted, dragHoldTimerRef, touchStartCoordsRef, holds,
                   listeners, nDowns>>

\* the reconcile effect runs: its dependencies changed in the last render
ReconcileEffect ==
    /\ mounted
    /\ depsChanged
    /\ Write(reconcile)
    /\ lastAct' = Act("reconcile", 0, FALSE, reconcile.posWritten, reconcile.sizeWritten)
    /\ UNCHANGED <<fingers, props, layout, isInteracting, viewportSize, interactionRef,
                   mounted, dragHoldTimerRef, touchStartCoordsRef, holds,
                   listeners, nDowns>>

\* the listener effect runs: registers the window listeners when isInteracting,
\* after its cleanup removed those of the previous render
ListenerEffect ==
    /\ mounted
    /\ ~depsChanged
    /\ listeners # isInteracting
    /\ listeners' = isInteracting
    /\ lastAct' = Act("listenerEffect", 0, FALSE, FALSE, FALSE)
    /\ UNCHANGED <<fingers, props, layout, position, size, isInteracting, viewportSize,
                   interactionRef, mounted, dragHoldTimerRef, touchStartCoordsRef,
                   holds, depsChanged, nDowns>>

\* an unmount whose cleanup leaves the window listeners registered (what C13
\* rules out)
UnmountKeepingListeners ==
    /\ Ready
    /\ mounted' = FALSE
    /\ lastAct' = Act("unmount", 0, FALSE, FALSE, FALSE)
    /\ UNCHANGED <<fingers, props, layout, position, size, isInteracting, viewportSize,
                   interactionRef, dragHoldTimerRef, touchStartCoordsRef, holds,
                   listeners, depsChanged, nDowns>>

\* the component is unmounted: windowRef.current becomes null and the effect
\* cleanups remove the listeners; no cleanup clears dragHoldTimerRef
Unmount ==
    /\ Ready
    /\ mounted' = FALSE
    /\ listeners' = FALSE
    /\ lastAct' = Act("unmount", 0, FALSE, FALSE, FALSE)
    /\ UNCHANGED <<fingers, props, layout, position, size, isInteracting, viewportSize,
                   interactionRef, dragHoldTimerRef, touchStartCoordsRef, holds,
                   depsChanged, nDowns>>

Next ==
    \/ \E x \in DownCoords, y \in DownCoords, i \in BOOLEAN : MouseDownContent(x, y, i)
    \/ \E t \in ResizeTypes, x \in DownCoords, y \in DownCoords : PointerDownHandle(t, x, y)
    \/ \E x \in DownCoords, y \in DownCoords, i \in BOOLEAN : TouchStartContent(x, y, i)
    \/ \E k \in 1..MaxDowns : HoldTimerFires(k)
    \/ \E x \in layout.xs, y \in layout.ys : TouchMoveContent(x, y)
    \/ \E x \in layout.xs, y \in layout.ys : WindowMove(x, y)
    \/ \E x \in layout.xs, y \in layout.ys : WindowMoveBeforeCleanup(x, y)
    \/ WindowEnd
    \/ \E i \in 1..MaxDowns : TouchEndContent(i)
    \/ \E i \in 0..MaxDowns : TouchCancel(i)
    \/ \E w \in layout.widths, h \in layout.heights : handleResize(w, h)
    \/ ReconcileEffect
    \/ ListenerEffect
    \/ Unmount

Spec == Init /\ [][Next]_vars

----------------------------------------------------------------------------
(* Style resolution as a specification: the parent renders the component   *)
(* with style props drawn from the sets below; the geometry is at rest.     *)

\* keys the documentation lists for windowShadow
DocumentedShadowKeys ==
    {"none", "sm", "md", "lg", "xl", "2xl", "3xl", "4xl", "5xl", "6xl", "7xl"}

\* keys that are no own property of any lookup table
UnknownKeys == {"unknown-500", "huge", "constructor", "toString", "hasOwnProperty", "__proto__"}

ColorTokens ==
    {<<"">>, <<"blue-500">>, <<"blue-500", "30">>, <<"unknown-500">>, <<"constructor">>}

BorderColorTokens == {<<"">>, <<"gray-300">>}

RadiusKeys == {"", "lg", "huge", "constructor"}

ShadowTokens ==
    {<<"">>, <<"xl", "abc">>}
    \cup {<<k>> : k \in DocumentedShadowKeys}
    \cup {<<k, "30">> : k \in DocumentedShadowKeys}
    \cup {<<k>> : k \in UnknownKeys \ {"unknown-500"}}
    \cup {<<"huge", "30">>}

BlurKeys == {"", "md", "huge", "constructor"}

Saturations == {"100", "150"}

\* the style props among props p
StyleOf(p) == [k \in StyleNames |-> p[k]]

\* The parent re-renders the component with style props st.  A render that
\* throws unmounts the tree (there is no error boundary in the component).
Rerender(st) ==
    /\ Ready
    /\ st # StyleOf(props)
    /\ props' = st @@ props
    /\ mounted' = ~Throws(st)
    /\ lastAct' = Act("render", 0, FALSE, FALSE, FALSE)
    /\ UNCHANGED <<layout, position, size, isInteracting, viewportSize,
                   interactionRef, dragHoldTimerRef, touchStartCoordsRef, holds,
                   fingers, listeners, depsChanged, nDowns>>

StyleInit ==
    \E ax \in AxisScenario300, ay \in AxisScenario200 :
        InitWith(ax, ay, FALSE, FALSE, ScenarioCoords, ScenarioCoords)

StyleNext ==
    \/ ReconcileEffect
    \/ \E c \in ColorTokens : Rerender([StyleOf(props) EXCEPT !.windowColor = c])
    \/ \E c \in BorderColorTokens : Rerender([StyleOf(props) EXCEPT !.windowBorderColor = c])
    \/ \E r \in RadiusKeys : Rerender([StyleOf(props) EXCEPT !.windowBorderRadius = r])
    \/ \E s \in ShadowTokens : Rerender([StyleOf(props) EXCEPT !.windowShadow = s])
    \/ \E b \in BlurKeys, s \in Saturations :
           Rerender([StyleOf(props) EXCEPT !.windowBackgroundBlur = b,
                                           !.windowBackgroundSaturation = s])

StyleSpec == StyleInit /\ [][StyleNext]_vars

----------------------------------------------------------------------------
(* Properties *)

MoveNames == {"windowMove", "touchMoveContent"}
StartNames == {"mouseDownContent", "pointerDownHandle", "touchStartContent",
               "holdTimerFires"}
EndNames == {"windowEnd", "touchEndContent", "touchCancel"}

\* the state a pointer-move of a drag / resize session has just written
AfterDragMove ==
    lastAct.name \in MoveNames /\ lastAct.posWritten /\ interactionRef.type = "drag"
AfterResizeMove ==
    lastAct.name \in MoveNames /\ lastAct.sizeWritten /\ interactionRef.type \in ResizeTypes

\* C1 as stated: after every pointer-move of a drag session with boundary on,
\* 0 <= x <= viewport.width - width and 0 <= y <= viewport.height - height,
\* width and height being those captured at session start.
C1_DragStaysInViewport ==
    (props.boundary /\ AfterDragMove) =>
        /\ 0 <= position.x
        /\ position.x <= viewportSize.width - interactionRef.initialWidth
        /\ 0 <= position.y
        /\ position.y <= viewportSize.height - interactionRef.initialHeight

\* C1 amended: after every pointer-move of a drag session with boundary on,
\* 0 <= x <= max(0, viewport.width - width) and likewise y: a box wider
\* (taller) than the viewport is held at 0.
C1_DragClamped ==
    (props.boundary /\ AfterDragMove) =>
        /\ 0 <= position.x
        /\ position.x <= Max(0, viewportSize.width - interactionRef.initialWidth)
        /\ 0 <= position.y
        /\ position.y <= Max(0, viewportSize.height - interactionRef.initialHeight)

\* a drag with boundary on has moved the box right, up to the viewport's edge
C1_Witness ==
    /\ props.boundary /\ AfterDragMove
    /\ position.x > interactionRef.initialX
    /\ position.x = viewportSize.width - interactionRef.initialWidth

\* the size value is a number within [minDim, effectiveMax]
InSizeRange(s, minDim, effectiveMax) ==
    IsNumber(s) /\ s.v >= minDim /\ ~Exceeds(s.v, effectiveMax)

\* a number at least minDim that exceeds effectiveMax only by being minDim
InSizeRangeMinFirst(s, minDim, effectiveMax) ==
    IsNumber(s) /\ s.v >= minDim /\ (Exceeds(s.v, effectiveMax) => s.v = minDim)

\* C2 as stated: after every pointer-move of a resize session, in any
\* direction and with boundary on or off, minW <= width <= effective maxW and
\* minH <= height <= effective maxH.
C2_ResizeWithinMinMax ==
    AfterResizeMove =>
        /\ InSizeRange(size.w, props.minW, effectiveMaxW)
        /\ InSizeRange(size.h, props.minH, effectiveMaxH)

\* C2 amended: after every pointer-move of a resize session, width >= minW
\* and width <= max(minW, effective maxW), likewise height: where the minimum
\* is above the effective maximum the size is the minimum.
C2_ResizeWithinMinFirst ==
    AfterResizeMove =>
        /\ InSizeRangeMinFirst(size.w, props.minW, effectiveMaxW)
        /\ InSizeRangeMinFirst(size.h, props.minH, effectiveMaxH)

\* a resize has grown the width until the effective maximum stopped it
C2_Witness ==
    /\ AfterResizeMove
    /\ effectiveMaxW.tag # "inf"
    /\ props.minW < effectiveMaxW.v
    /\ size.w.v = effectiveMaxW.v
    /\ interactionRef.initialWidth < size.w.v

C4_PointerDownIgnoredWhileActive ==
    [][(interactionRef # NoSession /\ lastAct'.name \in StartNames)
       => interactionRef' = interactionRef]_vars

\* C5: every pointer-up, touch cancel and pointer-leave while a session is
\* Active ends in Idle with the session cleared and no hold timer pending.
C5_EveryReleaseEndsSession ==
    [][(interactionRef # NoSession /\ lastAct'.name \in EndNames)
       => (interactionRef' = NoSession /\ ~isInteracting' /\ PendingHolds' = {})]_vars

\* the touch that set timeout k is still down
FingerDown(k) == \E i \in 1..Len(fingers) : fingers[i] = k

\* the drag session handleInteractionStart builds for the touch of timeout k
HoldSession(k) ==
    [type |-> "drag", startX |-> holds[k].x, startY |-> holds[k].y,
     initialWidth |-> offsetWidth, initialHeight |-> offsetHeight,
     initialX |-> holds[k].pos.x, initialY |-> holds[k].pos.y]

\* this step is a touch-move reporting the touch of timeout k beyond the
\* threshold
MovesBeyond(k) ==
    /\ lastAct'.name = "touchMoveContent"
    /\ k = Head(fingers)
    /\ \E x \in layout.xs, y \in layout.ys :
           beyondThreshold(holds[k], x, y) /\ TouchMoveContent(x, y)

\* C6: once a touch has moved beyond the movement threshold before its hold
\* delay elapsed, the expiry of its hold timer creates no session and changes
\* no geometry, however touch and timer events interleave.
C6_NoSessionAfterMoveBeyondThreshold ==
    [][\A k \in PendingHolds :
          (holds[k].exceeded /\ lastAct'.name = "holdTimerFires" /\ lastAct'.id = k)
          => UNCHANGED <<interactionRef, isInteracting, position, size>>]_vars

\* C7: while the widget is mounted, a touch on a non-interactive target that
\* stays down and within the threshold keeps its hold timer pending until the
\* timer expires, and the expiry creates the Drag session whose origin is the
\* touch-start point.
C7_HoldWithinThresholdStartsDrag ==
    [][\A k \in PendingHolds :
          (mounted' /\ ~holds[k].interactive /\ ~holds[k].exceeded /\ FingerDown(k))
          => \/ holds'[k].status = "pending"
             \/ /\ lastAct'.name = "holdTimerFires" /\ lastAct'.id = k
                /\ interactionRef' = HoldSession(k) /\ isInteracting'
             \/ MovesBeyond(k)
             \/ ~FingerDown(k)']_vars

\* the rendered box lies within the viewport along one axis
WithinViewport(p, renderedDim, viewportDim) ==
    0 <= p /\ p + renderedDim <= viewportDim

\* within the viewport, or, too large for it, with its far edge on the
\* viewport's far edge
WithinOrFarAligned(p, renderedDim, viewportDim) ==
    IF renderedDim <= viewportDim
    THEN WithinViewport(p, renderedDim, viewportDim)
    ELSE p = viewportDim - renderedDim

\* no numeric size value exceeds its effective maximum
SizesWithinMax ==
    /\ ~(IsNumber(size.w) /\ Exceeds(size.w.v, effectiveMaxW))
    /\ ~(IsNumber(size.h) /\ Exceeds(size.h.v, effectiveMaxH))

\* the scenario: minW = 100, maxW = 500, viewport shrunk to 400x600
Scenario400 ==
    /\ props.minW = 100 /\ props.maxW = Px(500) /\ props.boundary
    /\ viewportSize = [width |-> 400, height |-> 600]

\* C8 as stated: with boundary on, once reconciliation has completed the
\* rendered box lies within the viewport and every numeric size is at most
\* its effective maximum; in the scenario x <= 300 and width <= 400.
C8_ReconciledWithinViewport ==
    (props.boundary /\ ~depsChanged) =>
        /\ WithinViewport(position.x, offsetWidth, viewportSize.width)
        /\ WithinViewport(position.y, offsetHeight, viewportSize.height)
        /\ SizesWithinMax
        /\ Scenario400 => (position.x <= 300 /\ offsetWidth <= 400)

\* C8 amended: with boundary on, once reconciliation has completed every
\* numeric size is at most its effective maximum and, along each axis, the
\* rendered box lies within the viewport if it is no larger than the
\* viewport, and otherwise has x = viewport.width - width (y likewise),
\* which is negative; in the scenario x <= 300 and width <= 400.
C8_ReconciledWithinOrFarAligned ==
    (props.boundary /\ ~depsChanged) =>
        /\ WithinOrFarAligned(position.x, offsetWidth, viewportSize.width)
        /\ WithinOrFarAligned(position.y, offsetHeight, viewportSize.height)
        /\ SizesWithinMax
        /\ Scenario400 => (position.x <= 300 /\ offsetWidth <= 400)

\* the scenario's viewport has shrunk to 400x600 and the reconciliation has
\* moved the window from x = 750 to x = 300
C8_Witness ==
    /\ Scenario400 /\ ~depsChanged
    /\ lastAct.name = "reconcile"
    /\ position.x = 300 /\ size.w = Px(100)

\* C9: in the initial state, after every pointer-move and after every
\* reconciliation pass, a numeric width lies within [minW, effective maxW]
\* and a numeric height within [minH, effective maxH].
C9_NumericSizeWithinMinMax ==
    (lastAct.name \in {"mount", "reconcile"} \cup MoveNames) =>
        /\ IsNumber(size.w) => InSizeRange(size.w, props.minW, effectiveMaxW)
        /\ IsNumber(size.h) => InSizeRange(size.h, props.minH, effectiveMaxH)

\* C10: a reconciliation pass that follows a reconciliation pass, the
\* viewport and bounds unchanged, yields the same geometry and writes
\* neither position nor size.
C10_ReconcileIdempotent ==
    [][(lastAct.name = "reconcile" /\ lastAct'.name = "reconcile")
       => /\ UNCHANGED <<position, size>>
          /\ ~lastAct'.posWritten /\ ~lastAct'.sizeWritten]_vars

\* along one axis no boundary clamp can have applied to the resize just
\* written: boundary is off, or the box lies strictly inside the viewport
NoBoundaryClamp(p, dim, viewportDim) ==
    ~props.boundary \/ (0 < p /\ p + dim < viewportDim)

\* C11: after every resize move in a direction touching the left edge, when
\* no boundary clamp applies, newX + newWidth = startX + startWidth; likewise
\* newY + newHeight = startY + startHeight for a direction touching the top
\* edge.
C11_OppositeEdgeFixed ==
    AfterResizeMove =>
        /\ (IncludesLeft(interactionRef.type)
            /\ NoBoundaryClamp(position.x, size.w.v, viewportSize.width))
           => position.x + size.w.v
                = interactionRef.initialX + interactionRef.initialWidth
        /\ (IncludesTop(interactionRef.type)
            /\ NoBoundaryClamp(position.y, size.h.v, viewportSize.height))
           => position.y + size.h.v
                = interactionRef.initialY + interactionRef.initialHeight

\* a resize by the left edge, boundary off, has been stopped by a size bound:
\* the width changed and the right edge is where it was
C11_Witness ==
    /\ AfterResizeMove /\ ~props.boundary
    /\ IncludesLeft(interactionRef.type)
    /\ size.w.v # interactionRef.initialWidth
    /\ size.w.v \in {props.minW, effectiveMaxW.v}
    /\ position.x + size.w.v = interactionRef.initialX + interactionRef.initialWidth

\* a pointer-move event at (x, y) is handled
MoveAt(x, y) ==
    \/ lastAct'.name = "windowMove" /\ WindowMove(x, y)
    \/ lastAct'.name = "touchMoveContent" /\ TouchMoveContent(x, y)

\* the session resizes by the right and/or bottom edge only
FarEdgesOnly ==
    interactionRef.type \in {"resize-right", "resize-bottom", "resize-bottom-right"}

\* the move to (x, y) drives the tentative width / height below the minimum
BelowMinW(x) ==
    /\ IncludesRight(interactionRef.type)
    /\ interactionRef.initialWidth + (x - interactionRef.startX) < props.minW
BelowMinH(y) ==
    /\ IncludesBottom(interactionRef.type)
    /\ interactionRef.initialHeight + (y - interactionRef.startY) < props.minH

SessionStartPosition == [x |-> interactionRef.initialX, y |-> interactionRef.initialY]

\* C12 as stated: a right/bottom resize move whose delta drives the tentative
\* size below the minimum writes exactly the minimum on each such axis and
\* leaves the position at the session's start position.
C12_FlooredAtMinimumInPlace ==
    [][\A x \in layout.xs, y \in layout.ys :
          (/\ lastAct'.name \in MoveNames /\ FarEdgesOnly
           /\ (BelowMinW(x) \/ BelowMinH(y)) /\ MoveAt(x, y))
          => /\ BelowMinW(x) => size'.w = Px(props.minW)
             /\ BelowMinH(y) => size'.h = Px(props.minH)
             /\ position' = SessionStartPosition]_vars

\* C12 amended: such a move writes exactly the minimum on each such axis,
\* and leaves the position at the session's start position when boundary is
\* off or the start position is non-negative on both axes.
C12_FlooredAtMinimum ==
    [][\A x \in layout.xs, y \in layout.ys :
          (/\ lastAct'.name \in MoveNames /\ FarEdgesOnly
           /\ (BelowMinW(x) \/ BelowMinH(y)) /\ MoveAt(x, y))
          => /\ BelowMinW(x) => size'.w = Px(props.minW)
             /\ BelowMinH(y) => size'.h = Px(props.minH)
             /\ (~props.boundary
                 \/ (interactionRef.initialX >= 0 /\ interactionRef.initialY >= 0))
                => position' = SessionStartPosition]_vars

\* the scenario: the 300x200 window resized by its bottom-right handle by
\* (-1000, -1000) is 50x50 at its start position
C12_Witness ==
    /\ lastAct.name \in MoveNames /\ lastAct.sizeWritten
    /\ interactionRef.type = "resize-bottom-right"
    /\ interactionRef.initialWidth = 300 /\ interactionRef.initialHeight = 200
    /\ props.minW = 50 /\ props.minH = 50
    /\ size = [w |-> Px(50), h |-> Px(50)]
    /\ position = SessionStartPosition

\* a session is Active
Active == interactionRef # NoSession

\* C13 as stated: in every reachable state the window listeners are
\* registered if and only if a session is Active, and none is registered
\* after the unmount.
C13_ListenersIffActive ==
    /\ listeners <=> Active
    /\ ~mounted => ~listeners

\* C13 amended: whenever the mounted component's effects have run (which is
\* before the next event is dispatched) the window listeners are registered
\* if and only if a session is Active, and none is registered after the
\* unmount.
C13_ListenersIffActiveOnceEffectsRan ==
    /\ Ready => (listeners <=> Active)
    /\ ~mounted => ~listeners

\* the component was unmounted during a session, and the listeners are gone
C13_Witness == ~mounted /\ Active /\ ~listeners /\ lastAct.name = "unmount"

\* C14: a pointer-move of a Drag session leaves the width and height values,
\* tags included, as they were, and writes only the position.
C14_DragKeepsSize ==
    [][(lastAct'.name \in MoveNames /\ interactionRef.type = "drag")
       => (size' = size /\ ~lastAct'.sizeWritten /\ lastAct'.posWritten)]_vars

\* a drag has moved a window whose width is 'auto'
C14_Witness ==
    /\ AfterDragMove
    /\ size.w = Auto
    /\ position.x # interactionRef.initialX

\* C15: a pointer-down on a rendered resize handle creates the resize session
\* of that handle in the same step, a mouse-down on a non-interactive part of
\* the content area creates the drag session in the same step, and a
\* touch-start on the content area creates no session but a pending timeout.
C15_ImmediateStartExceptTouchDrag ==
    [][/\ \A t \in ResizeTypes, x \in DownCoords, y \in DownCoords :
             (lastAct'.name = "pointerDownHandle" /\ PointerDownHandle(t, x, y))
             => (interactionRef'.type = t /\ interactionRef'.startX = x
                 /\ interactionRef'.startY = y /\ isInteracting')
       /\ \A x \in DownCoords, y \in DownCoords :
             (lastAct'.name = "mouseDownContent" /\ MouseDownContent(x, y, FALSE))
             => (interactionRef'.type = "drag" /\ interactionRef'.startX = x
                 /\ interactionRef'.startY = y /\ isInteracting')
       /\ lastAct'.name = "touchStartContent"
             => (UNCHANGED <<interactionRef, isInteracting>>
                 /\ holds'[lastAct'.id].status = "pending")]_vars

\* a pointer-down on a handle has started a resize session from Idle: the
\* session exists before the listener effect has run
C15_Witness ==
    /\ lastAct.name = "pointerDownHandle"
    /\ interactionRef.type \in ResizeTypes /\ isInteracting /\ ~listeners

\* C16: a pointer-down handled while windowRef.current is missing creates no
\* session and changes neither isInteracting nor the geometry.
C16_NoSurfaceNoSession ==
    [][(~mounted /\ lastAct'.name \in StartNames)
       => UNCHANGED <<interactionRef, isInteracting, position, size>>]_vars

\* the hold timer of a touch on a non-interactive target has expired after
\* the unmount, and there is no session
C16_Witness ==
    /\ ~mounted /\ lastAct.name = "holdTimerFires" /\ ~lastAct.interactive
    /\ ~Active /\ ~isInteracting

\* C17 as stated: the handles of all 8 directions are rendered in every
\* state.
C17_EightHandlesAlways == activeHandles = ResizeTypes

\* C17 amended: the handles of all 8 directions are rendered while
\* isInteracting is false; while it is true only the four corner handles are,
\* so a pointer-down on a handle during a session starts a corner resize.
C17_EightHandlesIdleCornersActive ==
    /\ ~isInteracting => activeHandles = ResizeTypes
    /\ isInteracting =>
          activeHandles = {"resize-top-left", "resize-top-right",
                           "resize-bottom-left", "resize-bottom-right"}
    /\ (lastAct.name = "pointerDownHandle" /\ listeners)
       => (IncludesLeft(interactionRef.type) \/ IncludesRight(interactionRef.type))
          /\ (IncludesTop(interactionRef.type) \/ IncludesBottom(interactionRef.type))

\* a pointer-down on a handle was handled while the listeners of a running
\* session were registered
C17_Witness ==
    /\ lastAct.name = "pointerDownHandle" /\ listeners
    /\ interactionRef.type = "resize-bottom-right"

\* C18: isInteracting is true exactly when a session is Active, and
\* user-select is 'none' exactly when isInteracting is true, 'auto' otherwise.
C18_FlagIffActive ==
    /\ isInteracting <=> Active
    /\ userSelect = "none" <=> isInteracting
    /\ ~Active => userSelect = "auto"

\* a session has ended: Idle again, with text selection enabled
C18_Witness ==
    /\ lastAct.name = "windowEnd" /\ ~Active /\ ~isInteracting
    /\ userSelect = "auto"

\* C19: for every documented shadow key (none, sm, md, lg, xl, 2xl ... 7xl),
\* with or without an '/opacity' suffix, getBoxShadow returns a box-shadow
\* value and never raises an error; the key 'none' resolves to no shadow,
\* every other key to its preset at the given opacity (50 by default).
\* (StyleSpec)
C19_DocumentedShadowResolves ==
    first(props.windowShadow) \in DocumentedShadowKeys
    /\ parseInt(second(props.windowShadow, "50")) # NaN
    => /\ windowStyle.boxShadow.kind = "string"
       /\ IF first(props.windowShadow) = "none"
          THEN windowStyle.boxShadow = Str("none")
          ELSE windowStyle.boxShadow
               = BoxShadow(first(props.windowShadow),
                           parseInt(second(props.windowShadow, "50")))

\* C20: an unknown style key never fails: an unknown color name resolves to
\* the default RGB triple (107, 114, 128) at the token's opacity, an unknown
\* radius key to the default radius 0.25rem, an unknown shadow key to the
\* default shadow preset and an unknown blur key to the default blur(8px),
\* each as a value and never as an error.  (StyleSpec)
C20_UnknownKeyFallsBack ==
    /\ first(props.windowColor) \in UnknownKeys
       => windowStyle.backgroundColor
          = Rgba(<<"107", "114", "128">>, parseInt(second(props.windowColor, "100")))
    /\ props.windowBorderRadius \in UnknownKeys
       => windowStyle.borderRadius = Str("0.25rem")
    /\ first(props.windowShadow) \in UnknownKeys
       => windowStyle.boxShadow = BoxShadow("", parseInt(second(props.windowShadow, "50")))
    /\ props.windowBackgroundBlur \in UnknownKeys
       => /\ windowStyle.backdropFilter.kind = "string"
          /\ windowStyle.backdropFilter.filters[1] = "blur(8px)"

\* C21: a color token 'name-shade/opacity' whose name-shade is an entry of the
\* color table resolves to the rgba value of that entry's RGB triple with
\* alpha = opacity/100 (alpha in hundredths here), and alpha 1.0 without an
\* '/opacity'; 'blue-500/30' gives (59, 130, 246) at 0.30 and 'unknown-500'
\* the default triple (107, 114, 128) at 1.0.  (StyleSpec)
C21_ColorTokenResolves ==
    /\ first(props.windowColor) \in DOMAIN colorMap
       => windowStyle.backgroundColor
          = Rgba(splitSpace[colorMap[first(props.windowColor)].v],
                 IF Len(props.windowColor) >= 2
                 THEN numeralValue[props.windowColor[2]] ELSE 100)
    /\ props.windowColor = <<"blue-500", "30">>
       => windowStyle.backgroundColor = Rgba(<<"59", "130", "246">>, 30)
    /\ props.windowColor = <<"blue-500">>
       => windowStyle.backgroundColor = Rgba(<<"59", "130", "246">>, 100)
    /\ props.windowColor = <<"unknown-500">>
       => windowStyle.backgroundColor = Rgba(<<"107", "114", "128">>, 100)

\* the scenario token 'blue-500/30' has been rendered
C21_Witness ==
    /\ lastAct.name = "render"
    /\ mounted
    /\ props.windowColor = <<"blue-500", "30">>
    /\ windowStyle.backgroundColor.alpha = 30

\* C22: the hold timer never fires after it has been cancelled: the timeout
\* of a touch that moved beyond the threshold, or whose widget has been
\* unmounted, does not expire into its callback, and the touch end of a touch
\* leaves the timeout of that touch no longer pending.
C22_CancelledTimerNeverFires ==
    [][/\ \A k \in PendingHolds :
              (holds[k].exceeded \/ ~mounted)
              => ~(lastAct'.name = "holdTimerFires" /\ lastAct'.id = k)
       /\ \A i \in 1..Len(fingers) :
              (lastAct'.name = "touchEndContent" /\ fingers' = RemoveAt(fingers, i))
              => fingers[i] \notin PendingHolds']_vars

\* the size a left/top resize by d reaches within [minDim, effectiveMax], and
\* the coordinate its near edge would then have
TentativeDim(initialDim, d, minDim, effectiveMax) ==
    Max(minDim, MinMax(initialDim - d, effectiveMax))
WouldBePos(initialPos, initialDim, d, minDim, effectiveMax) ==
    initialPos + initialDim - TentativeDim(initialDim, d, minDim, effectiveMax)

\* C23, one axis, for a resize move by d that wrote position p and size dim:
\* p >= 0; a resize by the near edge whose near edge would lie below 0 writes
\* p = 0 and the tentative size less the overflow (unless the far-edge clamp
\* or the minimum then applies); and p + dim <= viewportDim unless dim is the
\* minimum.
ResizeConfined(near, initialPos, initialDim, d, minDim, effectiveMax, viewportDim, p, dim) ==
    /\ p >= 0
    /\ (near /\ WouldBePos(initialPos, initialDim, d, minDim, effectiveMax) < 0)
       => /\ p = 0
          /\ dim \in {TentativeDim(initialDim, d, minDim, effectiveMax)
                        + WouldBePos(initialPos, initialDim, d, minDim, effectiveMax),
                      viewportDim, minDim}
    /\ p + dim <= viewportDim \/ dim = minDim

\* C23: for every resize move with boundary on: x >= 0 and y >= 0; a left/top
\* resize that would push the near edge below 0 zeroes that coordinate and
\* reduces the dimension by the overflow; x + width <= viewport.width and
\* y + height <= viewport.height unless the dimension equals its minimum.
C23_ResizeConfinedToViewport ==
    [][\A x \in layout.xs, y \in layout.ys :
          (/\ lastAct'.name \in MoveNames /\ props.boundary
           /\ interactionRef.type \in ResizeTypes /\ MoveAt(x, y))
          => /\ ResizeConfined(IncludesLeft(interactionRef.type),
                               interactionRef.initialX, interactionRef.initialWidth,
                               x - interactionRef.startX, props.minW, effectiveMaxW,
                               viewportSize.width, position'.x, size'.w.v)
             /\ ResizeConfined(IncludesTop(interactionRef.type),
                               interactionRef.initialY, interactionRef.initialHeight,
                               y - interactionRef.startY, props.minH, effectiveMaxH,
                               viewportSize.height, position'.y, size'.h.v)]_vars

\* a resize by the left edge, boundary on, was moved past the viewport's left
\* edge: the window is at x = 0 with the overflow taken off its width
C23_Witness ==
    /\ AfterResizeMove /\ props.boundary
    /\ IncludesLeft(interactionRef.type)
    /\ position.x = 0
    /\ \E x \in layout.xs :
          LET d == x - interactionRef.startX
              t == TentativeDim(interactionRef.initialWidth, d, props.minW, effectiveMaxW)
              p == WouldBePos(interactionRef.initialX, interactionRef.initialWidth, d,
                              props.minW, effectiveMaxW)
          IN  p < 0 /\ size.w.v = t + p /\ size.w.v > props.minW

\* a pointer at x (at y) puts the tentative width (height) of a resize by the
\* left (top) edge at or above the effective maximum
AtMaxW(x) ==
    /\ IncludesLeft(interactionRef.type)
    /\ Exceeds(interactionRef.initialWidth - (x - interactionRef.startX) + 1, effectiveMaxW)
AtMaxH(y) ==
    /\ IncludesTop(interactionRef.type)
    /\ Exceeds(interactionRef.initialHeight - (y - interactionRef.startY) + 1, effectiveMaxH)

\* the geometry along x (along y) is the one a move at such a pointer writes
ReachedMaxW ==
    \E x0 \in layout.xs :
        /\ AtMaxW(x0)
        /\ handleInteractionMove(x0, interactionRef.startY).position.x = position.x
        /\ handleInteractionMove(x0, interactionRef.startY).size.w = size.w
ReachedMaxH ==
    \E y0 \in layout.ys :
        /\ AtMaxH(y0)
        /\ handleInteractionMove(interactionRef.startX, y0).position.y = position.y
        /\ handleInteractionMove(interactionRef.startX, y0).size.h = size.h

\* C24 as stated: once a resize by the left (top) edge has reached the
\* effective maximum, every further pointer-move with the tentative width
\* (height) at or above the maximum leaves x and the width (y and the height)
\* unchanged, and the right (bottom) edge is at startX + startWidth
\* (startY + startHeight).
C24_NoDriftOppositeEdgeFixed ==
    [][\A x \in layout.xs, y \in layout.ys :
          (/\ lastAct'.name \in MoveNames /\ interactionRef.type \in ResizeTypes
           /\ (AtMaxW(x) /\ ReachedMaxW) \/ (AtMaxH(y) /\ ReachedMaxH)
           /\ MoveAt(x, y))
          => /\ (AtMaxW(x) /\ ReachedMaxW)
                => /\ position'.x = position.x /\ size'.w = size.w
                   /\ position'.x + size'.w.v
                        = interactionRef.initialX + interactionRef.initialWidth
             /\ (AtMaxH(y) /\ ReachedMaxH)
                => /\ position'.y = position.y /\ size'.h = size.h
                   /\ position'.y + size'.h.v
                        = interactionRef.initialY + interactionRef.initialHeight]_vars

\* C24 amended: once a resize by the left (top) edge has reached the
\* effective maximum, every further pointer-move with the tentative width
\* (height) at or above the maximum leaves x and the width (y and the height)
\* unchanged; the right (bottom) edge is at startX + startWidth
\* (startY + startHeight) when no boundary clamp applies.
C24_NoDriftAtMaximum ==
    [][\A x \in layout.xs, y \in layout.ys :
          (/\ lastAct'.name \in MoveNames /\ interactionRef.type \in ResizeTypes
           /\ (AtMaxW(x) /\ ReachedMaxW) \/ (AtMaxH(y) /\ ReachedMaxH)
           /\ MoveAt(x, y))
          => /\ (AtMaxW(x) /\ ReachedMaxW)
                => /\ position'.x = position.x /\ size'.w = size.w
                   /\ NoBoundaryClamp(position'.x, size'.w.v, viewportSize.width)
                      => position'.x + size'.w.v
                           = interactionRef.initialX + interactionRef.initialWidth
             /\ (AtMaxH(y) /\ ReachedMaxH)
                => /\ position'.y = position.y /\ size'.h = size.h
                   /\ NoBoundaryClamp(position'.y, size'.h.v, viewportSize.height)
                      => position'.y + size'.h.v
                           = interactionRef.initialY + interactionRef.initialHeight]_vars

\* a resize by the left edge, boundary off, has grown the window to the
\* effective maximum, and a pointer still further left exists
C24_Witness ==
    /\ AfterResizeMove /\ ~props.boundary
    /\ interactionRef.type = "resize-left"
    /\ ReachedMaxW
    /\ size.w.v > interactionRef.initialWidth
    /\ \E x, x0 \in layout.xs :
          /\ x < x0 /\ AtMaxW(x) /\ AtMaxW(x0)
          /\ handleInteractionMove(x0, interactionRef.startY).position = position
    /\ position.x + size.w.v = interactionRef.initialX + interactionRef.initialWidth

\* C25: where minW exceeds the effective maxW the minimum wins: after a resize
\* move the width is minW, and it is still minW after the reconciliation pass
\* that follows the move, although it exceeds the maximum; likewise height.
C25_MinimumWinsOverMaximum ==
    [][/\ (AfterResizeMove /\ Exceeds(props.minW, effectiveMaxW))
          => /\ size.w = Px(props.minW)
             /\ lastAct'.name = "reconcile" => size'.w = Px(props.minW)
       /\ (AfterResizeMove /\ Exceeds(props.minH, effectiveMaxH))
          => /\ size.h = Px(props.minH)
             /\ lastAct'.name = "reconcile" => size'.h = Px(props.minH)]_vars

\* the tentative dimension of a resize by d along an axis the type touches
Tentative(far, near, initialDim, d) ==
    IF near THEN initialDim - d ELSE IF far THEN initialDim + d ELSE initialDim

\* C26, one axis, for a move by d that wrote position p and size value s
\* while the viewport dimension was viewportDim: a resize with the maximum
\* 'viewport' and boundary off whose tentative dimension exceeds viewportDim
\* writes max(minDim, viewportDim); a drag with boundary on, of a box that
\* fits, beyond the far edge writes viewportDim - initialDim.
ClampsAgainst(viewportDim, far, near, maxDim, minDim, initialPos, initialDim, d, p, s) ==
    /\ (/\ interactionRef.type \in ResizeTypes /\ ~props.boundary
        /\ maxDim = Viewport
        /\ Tentative(far, near, initialDim, d) > viewportDim)
       => s = Px(Max(minDim, viewportDim))
    /\ (/\ interactionRef.type = "drag" /\ props.boundary
        /\ initialDim <= viewportDim
        /\ initialPos + d > viewportDim - initialDim)
       => p = viewportDim - initialDim

\* the sessions whose moves clamp against the viewport: a resize with a
\* maximum 'viewport' and boundary off, a drag with boundary on
ViewportClampApplies ==
    \/ /\ interactionRef.type \in ResizeTypes /\ ~props.boundary
       /\ Viewport \in {props.maxW, props.maxH}
    \/ interactionRef.type = "drag" /\ props.boundary

\* C26: every pointer-move clamps the size (maxW / maxH = 'viewport') and the
\* position (boundary) against the viewport dimensions current when it is
\* processed, also when the viewport changed during the session, never
\* against those of the session's start.
C26_ClampsAgainstCurrentViewport ==
    [][\A x \in layout.xs, y \in layout.ys :
          (lastAct'.name \in MoveNames /\ ViewportClampApplies /\ MoveAt(x, y))
          => /\ ClampsAgainst(viewportSize.width, IncludesRight(interactionRef.type),
                              IncludesLeft(interactionRef.type), props.maxW, props.minW,
                              interactionRef.initialX, interactionRef.initialWidth,
                              x - interactionRef.startX, position'.x, size'.w)
             /\ ClampsAgainst(viewportSize.height, IncludesBottom(interactionRef.type),
                              IncludesTop(interactionRef.type), props.maxH, props.minH,
                              interactionRef.initialY, interactionRef.initialHeight,
                              y - interactionRef.startY, position'.y, size'.h)]_vars

\* A resize by the right edge of a 30px window (a numeric width, which the
\* reconciliation keeps within the viewport while no session runs) with maxW
\* 'viewport' has written the width 20 of a viewport that is narrower than
\* the window was at session start: the viewport shrank during the session.
C26_Witness ==
    /\ AfterResizeMove /\ ~props.boundary
    /\ props.maxW = Viewport /\ props.minW <= 20
    /\ IncludesRight(interactionRef.type)
    /\ interactionRef.initialWidth = 30
    /\ viewportSize.width = 20
    /\ size.w = Px(20)

\* C27: every drag move with boundary off writes the position recorded at
\* session start plus (pointer - pointer origin), exactly, on both axes and
\* for any delta.
C27_FreeDragFollowsPointer ==
    [][\A x \in layout.xs, y \in layout.ys :
          (/\ lastAct'.name \in MoveNames /\ interactionRef.type = "drag"
           /\ ~props.boundary /\ MoveAt(x, y))
          => position' = [x |-> interactionRef.initialX + (x - interactionRef.startX),
                          y |-> interactionRef.initialY + (y - interactionRef.startY)]]_vars

\* a drag with boundary off has taken the window out of the viewport, beyond
\* its left and top edges
C27_Witness ==
    /\ AfterDragMove /\ ~props.boundary
    /\ position.x < 0 /\ position.y < 0
    /\ position.x + offsetWidth < 0

\* which timeouts are pending
Status(h) == [k \in 1..Len(h) |-> h[k].status]

\* the touch-move at (x, y) is within the threshold the later revision adds
WithinThreshold(x, y) ==
    touchStartCoordsRef.set /\ ~beyondThreshold(touchStartCoordsRef, x, y)

\* C28: from every reachable state each event leaves the earlier revision
\* (lib/WindowComponent.jsx) with the same session, interaction flag, pending
\* timeouts and geometry as the later revision, except a touch-move on the
\* content area within the movement threshold, where the later revision
\* leaves the timeouts as they are and the earlier one clears the pending
\* hold.
C28_EarlierRevisionAgrees ==
    [][/\ \A x \in layout.xs, y \in layout.ys :
              (lastAct'.name = "touchMoveContent" /\ TouchMoveContent(x, y))
              => /\ IF WithinThreshold(x, y)
                    THEN Status(holds') = Status(holds)
                    ELSE Status(holds') = Status(libCancelDragHold(holds).holds)
                 /\ UNCHANGED <<interactionRef, isInteracting>>
       /\ lastAct'.name = "touchEndContent"
          => /\ Status(holds') = Status(libCancelDragHold(holds).holds)
             /\ listeners
                => /\ interactionRef' = libHandleInteractionEnd.ref
                   /\ isInteracting' = libHandleInteractionEnd.isInteracting
             /\ ~listeners => UNCHANGED <<interactionRef, isInteracting>>
       /\ lastAct'.name = "windowEnd"
          => /\ Status(holds') = Status(libHandleInteractionEnd.holds)
             /\ interactionRef' = libHandleInteractionEnd.ref
             /\ isInteracting' = libHandleInteractionEnd.isInteracting
       /\ lastAct'.name \in {"touchMoveContent", "touchEndContent", "windowEnd"}
          => dragHoldTimerRef' = dragHoldTimerRef]_vars

\* a touch-move beyond the threshold has just cleared the pending hold of the
\* touch that is still down, as any touch-move does in the earlier revision
C28_Witness ==
    /\ lastAct.name = "touchMoveContent"
    /\ fingers = <<dragHoldTimerRef>>
    /\ holds[dragHoldTimerRef].status = "settled"
    /\ ~touchStartCoordsRef.set
    /\ interactionRef = NoSession

\* the operations that call handleInteractionStart
SessionStartNames == {"mouseDownContent", "pointerDownHandle", "holdTimerFires"}

\* C29: whenever handleInteractionStart creates a session (from a pointer-down
\* or from the hold timer), the session's geometry-at-start is the widget's
\* position and rendered size at that moment.
C29_SessionStartsAtCurrentGeometry ==
    [][(/\ lastAct'.name \in SessionStartNames
        /\ ~lastAct'.interactive
        /\ mounted)
       => /\ interactionRef' # NoSession
          /\ interactionRef'.initialX = position.x
          /\ interactionRef'.initialY = position.y
          /\ interactionRef'.initialWidth = offsetWidth
          /\ interactionRef'.initialHeight = offsetHeight]_vars

\* C30: at most one hold timer is pending at any time, and a pending one is
\* the one dragHoldTimerRef refers to, which a cancellation clears.
C30_AtMostOneHoldPending ==
    /\ Cardinality(PendingHolds) <= 1
    /\ PendingHolds \subseteq {dragHoldTimerRef}

\* C31: the reconcile pass that runs after a drag or resize pointer-move
\* leaves the position and size the move wrote as they are.
C31_MoveIsFixedPointOfReconcile ==
    [][(/\ lastAct.name \in MoveNames
        /\ lastAct.posWritten \/ lastAct.sizeWritten
        /\ lastAct'.name = "reconcile")
       => position' = position /\ size' = size]_vars

\* React runs a pending effect after the render that changed its
\* dependencies: the reconcile effect is not postponed forever
LiveSpec == Spec /\ WF_vars(ReconcileEffect)

\* C32: whenever a reconcile pass is triggered (by a viewport resize, or by
\* the values a handler or the previous pass wrote), the chain of passes
\* reaches a state in which no further pass is triggered.
C32_ReconciliationTerminates == depsChanged ~> ~depsChanged

\* after the viewport shrank to 20, a first pass clamped the width to the
\* viewport, a later one placed the window for that width, and the last pass
\* wrote nothing: the chain has ended with the window at rest
C32_Witness ==
    /\ lastAct.name = "reconcile" /\ ~depsChanged
    /\ ~lastAct.posWritten /\ ~lastAct.sizeWritten
    /\ interactionRef = NoSession
    /\ props.boundary /\ props.maxW = Viewport
    /\ viewportSize.width = 20 /\ size.w = Px(20) /\ position.x = 0

\* the position and size a move at (x, y) gives as a function of the session
\* record, the pointer, the viewport and the bounds alone; a drag leaves the
\* size to the state (keep)
FromSessionRecord(ref, x, y, keep) ==
    LET ax == resizeAxis(IncludesRight(ref.type), IncludesLeft(ref.type),
                         ref.initialX, ref.initialWidth, x - ref.startX,
                         props.minW, effectiveMaxW, viewportSize.width)
        ay == resizeAxis(IncludesBottom(ref.type), IncludesTop(ref.type),
                         ref.initialY, ref.initialHeight, y - ref.startY,
                         props.minH, effectiveMaxH, viewportSize.height)
    IN  IF ref.type = "drag"
        THEN [position |->
                [x |-> dragAxis(ref.initialX, x - ref.startX, ref.initialWidth,
                                viewportSize.width),
                 y |-> dragAxis(ref.initialY, y - ref.startY, ref.initialHeight,
                                viewportSize.height)],
              size |-> keep]
        ELSE [position |-> [x |-> ax.pos, y |-> ay.pos],
              size |-> [w |-> Px(ax.dim), h |-> Px(ay.dim)]]

\* C33: the position and size after a pointer-move of a session are those
\* determined by the session's start record and the pointer's location, at
\* whatever position and size the earlier moves of the session left the
\* window.
C33_MoveDependsOnStartAndPointer ==
    [][\A x \in layout.xs, y \in layout.ys :
          (lastAct'.name \in MoveNames /\ Active /\ MoveAt(x, y))
          => LET g == FromSessionRecord(interactionRef, x, y, size)
             IN  position' = g.position /\ size' = g.size]_vars

\* a resize by the left edge has been moved: the window is elsewhere and of
\* another width than at session start, as the start record and the pointer
\* determine
C33_Witness ==
    /\ AfterResizeMove /\ ~props.boundary
    /\ IncludesLeft(interactionRef.type)
    /\ position.x # interactionRef.initialX
    /\ size.w # Px(interactionRef.initialWidth)
    /\ \E x \in layout.xs :
          FromSessionRecord(interactionRef, x, interactionRef.startY, size).position
            = position

\* the session resizes by the left and/or right edge only, by the top and/or
\* bottom edge only
HorizontalOnly == interactionRef.type \in {"resize-left", "resize-right"}
VerticalOnly == interactionRef.type \in {"resize-top", "resize-bottom"}

\* C34: a pointer-move of a resize by the left or right edge leaves the height
\* value and y as they are, and one of a resize by the top or bottom edge
\* leaves the width value and x as they are.
C34_ResizeConfinedToItsAxes ==
    [][(lastAct'.name \in MoveNames /\ lastAct'.sizeWritten)
       => /\ HorizontalOnly => size'.h = size.h /\ position'.y = position.y
          /\ VerticalOnly => size'.w = size.w /\ position'.x = position.x]_vars

\* C35: a pointer-move handled while no session is active changes neither
\* position nor size, also when it is delivered to a window listener that is
\* still registered after the session ended.
C35_MoveWithoutSessionWritesNothing ==
    [][(lastAct'.name \in MoveNames /\ ~Active)
       => /\ position' = position /\ size' = size
          /\ ~lastAct'.posWritten /\ ~lastAct'.sizeWritten]_vars

\* a pointer-move has reached the window listener still registered after the
\* session ended: the listener effect's cleanup is pending
C35_Witness ==
    /\ lastAct.name = "windowMove" /\ ~Active
    /\ listeners /\ ~isInteracting
    /\ position # [x |-> 0, y |-> 0]

\* the operations that end a session: handleInteractionEnd
SessionEndNames == {"windowEnd", "touchEndContent"}

\* C36: a step that calls handleInteractionStart (a pointer-down, or the hold
\* timer expiring) and a step that calls handleInteractionEnd (pointer-up,
\* leave, touch-end) leave position and size as they are: an Auto or Full
\* size stays Auto or Full, and the geometry after the end is the one the last
\* move wrote.
C36_StartAndEndKeepGeometry ==
    [][(lastAct'.name \in StartNames \cup SessionEndNames)
       => position' = position /\ size' = size]_vars

\* a drag session on a window of Auto width has moved the window and has been
\* ended by a pointer-up: the width is still Auto and the window is where the
\* drag left it
C36_Witness ==
    /\ lastAct.name = "windowEnd" /\ ~Active
    /\ size.w = Auto
    /\ position.x > 0

====
